---- MODULE Spec2Model ----
(***************************************************************************)
(* Heritage Atlas: the offline enrichment pipeline scripts/build-geojson   *)
(* (coordinate parser, Web-Mercator projector, bounding-box index,         *)
(* point-in-polygon tester, address normaliser, fuzzy scorer, per-row      *)
(* orchestrator and snapshot emitter).                                     *)
(*                                                                         *)
(* Representation.  A JavaScript string is a sequence of one-character     *)
(* strings (<<"1","8">> is "18"); the degree sign is the character Deg.    *)
(* null is the empty tuple Null and a non-null value v of a nullable       *)
(* expression is <<v>> (a coordinate pair [lon, lat] is <<lon, lat>>).     *)
(* A Number read by parseFloat is kept in fixed point, in units of         *)
(* 10^-FracDigits degree.                                                  *)
(***************************************************************************)
EXTENDS Integers, Sequences, FiniteSets, TLC

VARIABLES
    fnCall,   \* the pure function under test and its arguments
    fnRet,    \* Pending until the function has been applied, then Returned(result)
    fnPrev,   \* the result and arguments of the call this one was derived from
    workbookFile,  \* the workbook on disk: [exists, rows]
    cbdFile,       \* the heritage polygon GeoJSON on disk: [exists, features]
    pc,            \* position of the script's top-level code
    cbdIndex,      \* const cbdIndex
    rows,          \* const rows
    rowIndex,      \* number of rows the for-of loop has finished
    features,      \* const features
    skipped,       \* let skipped
    matchedCBD,    \* let matchedCBD
    outputFile,    \* heritage.geojson on disk: Null until written
    scanLog,       \* history: what the last loop iteration evaluated, in order
    prevOutput,    \* history: heritage.geojson as the previous run of the script left it
    data,              \* viewer: state.data, the loaded snapshot
    filteredFeatures,  \* viewer: state.filteredFeatures
    selectedId,        \* viewer: state.selectedId (Null or <<id>>)
    search,            \* viewer: state.search
    usage,             \* viewer: state.usage
    zoning,            \* viewer: state.zoning
    heritageGrade,     \* viewer: state.heritageGrade
    styleKey,          \* viewer: state.styleKey
    view,              \* viewer: state.view
    heritageBound,     \* viewer: map.__heritageBound
    layerHandlers,     \* viewer: the map.on(type, layerId, ...) registrations, in order
    styleLoadOnce,     \* viewer: pending map.once('style.load', ...) callbacks
    mapLoaded,         \* viewer: the map's 'load' event has fired
    sourceData,        \* viewer: data of the 'heritage' source (Null: the style has none)
    selectedPointFilter, \* viewer: id in the filter of layer 'selected-point' (Null: no layer)
    siteList,          \* viewer: the <li> items of #siteList: [id, active]
    detailCard,        \* viewer: #detailCard: [hidden, innerHTML]
    styleToggleDisabled \* viewer: styleToggle.disabled

fnVars == <<fnCall, fnRet, fnPrev>>
pipeVars == <<workbookFile, cbdFile, pc, cbdIndex, rows, rowIndex, features,
              skipped, matchedCBD, outputFile, scanLog, prevOutput>>
viewVars == <<data, filteredFeatures, selectedId, search, usage, zoning, heritageGrade,
              styleKey, view, heritageBound, layerHandlers, styleLoadOnce, mapLoaded,
              sourceData, selectedPointFilter, siteList, detailCard, styleToggleDisabled>>
vars == <<fnVars, pipeVars, viewVars>>

Null == <<>>
Pending == <<>>
Returned(v) == <<v>>

(***************************************************************************)
(* Characters and the String methods the script uses.                      *)
(***************************************************************************)
Deg == "deg"
Digits == {"0", "1", "2", "3", "4", "5", "6", "7", "8", "9"}
LowerLetters == {"a", "b", "c", "d", "e", "f", "g", "h", "i", "j", "k", "l", "m",
                 "n", "o", "p", "q", "r", "s", "t", "u", "v", "w", "x", "y", "z"}
UpperLetters == {"A", "B", "C", "D", "E", "F", "G", "H", "I", "J", "K", "L", "M",
                 "N", "O", "P", "Q", "R", "S", "T", "U", "V", "W", "X", "Y", "Z"}

DigitVal(c) ==
    CASE c = "0" -> 0 [] c = "1" -> 1 [] c = "2" -> 2 [] c = "3" -> 3
      [] c = "4" -> 4 [] c = "5" -> 5 [] c = "6" -> 6 [] c = "7" -> 7
      [] c = "8" -> 8 [] c = "9" -> 9

LowerSeq == <<"a", "b", "c", "d", "e", "f", "g", "h", "i", "j", "k", "l", "m",
              "n", "o", "p", "q", "r", "s", "t", "u", "v", "w", "x", "y", "z">>
UpperSeq == <<"A", "B", "C", "D", "E", "F", "G", "H", "I", "J", "K", "L", "M",
              "N", "O", "P", "Q", "R", "S", "T", "U", "V", "W", "X", "Y", "Z">>

toUpperChar(c) ==
    IF c \in LowerLetters THEN UpperSeq[CHOOSE i \in 1..26 : LowerSeq[i] = c] ELSE c

toLowerChar(c) ==
    IF c \in UpperLetters THEN LowerSeq[CHOOSE i \in 1..26 : UpperSeq[i] = c] ELSE c

IsSpace(c) == c = " "

\* The first index >= i of s whose character is not white space (Len(s)+1 if none).
RECURSIVE skipSpaces(_, _)
skipSpaces(s, i) ==
    IF i <= Len(s) /\ IsSpace(s[i]) THEN skipSpaces(s, i + 1) ELSE i

\* The last index of the run of digits of s that starts at i (s[i] is a digit).
RECURSIVE digitRunEnd(_, _)
digitRunEnd(s, i) ==
    IF i + 1 <= Len(s) /\ s[i + 1] \in Digits THEN digitRunEnd(s, i + 1) ELSE i

\* The last index <= i of s whose character is not white space (0 if none).
RECURSIVE skipSpacesBack(_, _)
skipSpacesBack(s, i) ==
    IF i >= 1 /\ IsSpace(s[i]) THEN skipSpacesBack(s, i - 1) ELSE i

\* String.prototype.trim
trim(s) ==
    LET a == skipSpaces(s, 1)
        b == skipSpacesBack(s, Len(s))
    IN  IF a > b THEN <<>> ELSE SubSeq(s, a, b)

\* String.prototype.split(sep) for a one-character separator.
RECURSIVE splitFrom(_, _, _, _)
splitFrom(s, sep, i, cur) ==
    IF i > Len(s) THEN <<cur>>
    ELSE IF s[i] = sep THEN <<cur>> \o splitFrom(s, sep, i + 1, <<>>)
    ELSE splitFrom(s, sep, i + 1, Append(cur, s[i]))

split(s, sep) == splitFrom(s, sep, 1, <<>>)

\* Array.prototype.filter(Boolean) on an array of strings: the non-empty ones.
filterNonEmpty(parts) == SelectSeq(parts, LAMBDA p : p # <<>>)

\* Array.prototype.map(part => part.trim())
mapTrim(parts) == [k \in 1..Len(parts) |-> trim(parts[k])]

Abs(n) == IF n < 0 THEN -n ELSE n

(***************************************************************************)
(* parseCoord and parseGps.                                                *)
(***************************************************************************)
FracDigits == 2

RECURSIVE Pow10(_)
Pow10(k) == IF k = 0 THEN 1 ELSE 10 * Pow10(k - 1)

Scale == Pow10(FracDigits)

\* The value of the digits s[a..b] read as a decimal integer.
RECURSIVE digitsValue(_, _, _)
digitsValue(s, a, b) ==
    IF a > b THEN 0 ELSE digitsValue(s, a, b - 1) * 10 + DigitVal(s[b])

\* The fraction digits s[a..b] in units of 10^-FracDigits (digits past
\* FracDigits are not kept; the inputs of the model carry none).
fractionValue(s, a, b) ==
    LET n == b - a + 1
    IN  IF n <= 0 THEN 0
        ELSE IF n <= FracDigits THEN digitsValue(s, a, b) * Pow10(FracDigits - n)
        ELSE digitsValue(s, a, a + FracDigits - 1)

\* The index of the first digit of s at or after i (0 if none).
RECURSIVE firstDigit(_, _)
firstDigit(s, i) ==
    IF i > Len(s) THEN 0
    ELSE IF s[i] \in Digits THEN i ELSE firstDigit(s, i + 1)

\* Whether a fraction (\.\d+) follows the integer digits that end at intEnd.
hasFraction(text, intEnd) ==
    /\ intEnd + 2 <= Len(text)
    /\ text[intEnd + 1] = "."
    /\ text[intEnd + 2] \in Digits

\* The last index of match[1], whose integer digits end at intEnd.
numeralEnd(text, intEnd) ==
    IF hasFraction(text, intEnd) THEN digitRunEnd(text, intEnd + 2) ELSE intEnd

\* Number.parseFloat(match[1]): the numeral's digits are text[d..fracEnd], a
\* minus sign before them belongs to it.
parseFloat(text, d, intEnd, fracEnd) ==
    (IF d > 1 /\ text[d - 1] = "-" THEN -1 ELSE 1)
    * (digitsValue(text, d, intEnd) * Scale + fractionValue(text, intEnd + 2, fracEnd))

\* °? at index i: the index after it.
skipDegree(text, i) == IF i <= Len(text) /\ text[i] = Deg THEN i + 1 ELSE i

\* ([NSEW])? at index i, case-insensitive, upper-cased; "" if the group is empty.
hemisphereAt(text, i) ==
    IF i <= Len(text) /\ toUpperChar(text[i]) \in {"N", "S", "E", "W"}
      THEN toUpperChar(text[i])
    ELSE ""

\* The match whose numeral is text[d..fracEnd].
matchGroups(text, d, intEnd, fracEnd) ==
    <<[numeric |-> parseFloat(text, d, intEnd, fracEnd),
       hemisphere |-> hemisphereAt(text,
                        skipSpaces(text, skipDegree(text, skipSpaces(text, fracEnd + 1))))]>>

\* The leftmost match starts at the first digit d of text (at a minus sign
\* right before it, if any); no digit, no match.
matchAtDigit(text, d) ==
    IF d = 0 THEN Null
    ELSE matchGroups(text, d, digitRunEnd(text, d), numeralEnd(text, digitRunEnd(text, d)))

\* text.match(/(-?\d+(?:\.\d+)?)\s*°?\s*([NSEW])?/i): Null when nothing
\* matches, else <<[numeric |-> parseFloat(match[1]), hemisphere |-> match[2]
\* upper-cased]>>.
coordMatch(text) == matchAtDigit(text, firstDigit(text, 1))

\* The sign rules with the hemisphere applied on top of the numeral's own sign.
signCoordKeepSign(match, axis) ==
    IF match = Null THEN Null
    ELSE IF match[1].hemisphere # ""
      THEN <<match[1].numeric * (IF match[1].hemisphere \in {"S", "W"} THEN -1 ELSE 1)>>
    ELSE IF axis = "lat" THEN <<-Abs(match[1].numeric)>>
    ELSE <<match[1].numeric>>

\* parseCoord after the match: the sign rules.
signCoord(match, axis) ==
    IF match = Null THEN Null
    ELSE IF match[1].hemisphere # ""
      THEN <<Abs(match[1].numeric) * (IF match[1].hemisphere \in {"S", "W"} THEN -1 ELSE 1)>>
    ELSE IF axis = "lat" THEN <<-Abs(match[1].numeric)>>
    ELSE <<match[1].numeric>>

parseCoord(value, axis) ==
    IF value = <<>> THEN Null ELSE signCoord(coordMatch(trim(value)), axis)

\* The range check bounding the latitude only.
checkRangeLatOnly(lon, lat) ==
    IF Abs(lat) > 90 * Scale THEN Null ELSE <<lon, lat>>

\* parseGps, the final range check.
checkRange(lon, lat) ==
    IF Abs(lat) > 90 * Scale \/ Abs(lon) > 180 * Scale THEN Null ELSE <<lon, lat>>

\* parseGps without the axis swap.
orientPairNoSwap(first, second) ==
    IF first = Null \/ second = Null THEN Null
    ELSE checkRange(first[1], second[1])

\* parseGps from the two parsed components on: null check, axis swap.
orientPair(first, second) ==
    IF first = Null \/ second = Null THEN Null
    ELSE IF Abs(first[1]) <= 90 * Scale /\ Abs(second[1]) > 90 * Scale
      THEN checkRange(second[1], first[1])
    ELSE checkRange(first[1], second[1])

\* parseGps from the non-empty trimmed parts on.
parseParts(parts) ==
    IF Len(parts) < 2 THEN Null
    ELSE orientPair(parseCoord(parts[1], "lon"), parseCoord(parts[2], "lat"))

parseGps(gpsValue) ==
    IF gpsValue = <<>> THEN Null
    ELSE parseParts(filterNonEmpty(mapTrim(split(gpsValue, ","))))

asText(value) == trim(value)

(***************************************************************************)
(* projectLonLatTo3857.  Planar coordinates are kept to whole kilometres   *)
(* (R = 6378.137 km): x = R * lon * pi / 180, and the Mercator ordinate    *)
(* R * ln(tan(pi/4 + lat/2)) is read from its values at every tenth degree *)
(* and at the clamp latitude, linearly between them.                       *)
(***************************************************************************)
maxLat == (8505 * Scale) \div 100

MercatorKnots == <<0, 1119, 2273, 3504, 4866, 6446, 8400, 11069, 15539, 20038>>

\* R * ln(tan(pi/4 + lat/2)) in km for 0 <= lat <= maxLat (fixed point).
mercatorY(lat) ==
    LET step == 10 * Scale
        k == lat \div step
        lo == MercatorKnots[k + 1]
        hi == MercatorKnots[k + 2]
        width == IF k = 8 THEN maxLat - 8 * step ELSE step
    IN  lo + ((lat - k * step) * (hi - lo)) \div width

projectLonLatTo3857(lonLat) ==
    LET lon == lonLat[1]
        lat == lonLat[2]
        clampedLat == IF lat < -maxLat THEN -maxLat
                      ELSE IF lat > maxLat THEN maxLat ELSE lat
        x == IF lon >= 0 THEN (lon * 11132) \div (100 * Scale)
             ELSE -(((-lon) * 11132) \div (100 * Scale))
        y == IF clampedLat >= 0 THEN mercatorY(clampedLat) ELSE -mercatorY(-clampedLat)
    IN  <<x, y>>

(***************************************************************************)
(* Point-in-polygon and the bounding-box prefilter.  A point is <<x, y>>,  *)
(* a ring a sequence of points, a polygon a sequence of rings.             *)
(***************************************************************************)
\* One turn of the loop of ringContainsPoint: edge (ring[j], ring[i]).  The
\* denominator yj - yi is non-zero whenever the first conjunct holds, so the
\* quotient is compared exactly, by cross-multiplication.
edgeIntersects(ring, i, j, point) ==
    LET x == point[1]
        y == point[2]
        xi == ring[i][1]
        yi == ring[i][2]
        xj == ring[j][1]
        yj == ring[j][2]
        d == yj - yi
        n == (xj - xi) * (y - yi)
    IN  /\ (yi > y) # (yj > y)
        /\ IF d > 0 THEN (x - xi) * d < n ELSE (x - xi) * d > n

RECURSIVE ringLoop(_, _, _, _)
ringLoop(ring, i, inside, point) ==
    IF i > Len(ring) THEN inside
    ELSE LET j == IF i = 1 THEN Len(ring) ELSE i - 1
         IN  ringLoop(ring, i + 1,
                      IF edgeIntersects(ring, i, j, point) THEN ~inside ELSE inside,
                      point)

ringContainsPoint(ring, point) == ringLoop(ring, 1, FALSE, point)

polygonContainsPointNoHoles(rings, point) ==
    Len(rings) # 0 /\ ringContainsPoint(rings[1], point)

polygonContainsPoint(rings, point) ==
    IF Len(rings) = 0 THEN FALSE
    ELSE IF ~ringContainsPoint(rings[1], point) THEN FALSE
    ELSE \A i \in 2..Len(rings) : ~ringContainsPoint(rings[i], point)

pointInBBox(point, bbox) ==
    LET x == point[1]
        y == point[2]
    IN  x >= bbox[1] /\ x <= bbox[3] /\ y >= bbox[2] /\ y <= bbox[4]

\* Number's Infinity: greater than every coordinate of the model.
Infinity == 1000000

SetMin(S) == CHOOSE m \in S : \A o \in S : m <= o
SetMax(S) == CHOOSE m \in S : \A o \in S : m >= o

\* Every vertex of every ring of every polygon.
polygonVertices(polygons) ==
    UNION { UNION { { polygons[a][b][c] : c \in 1..Len(polygons[a][b]) }
                    : b \in 1..Len(polygons[a]) }
            : a \in 1..Len(polygons) }

\* [minX, minY, maxX, maxY] over a set of vertices.
bboxOfVertices(pts) ==
    <<SetMin({ p[1] : p \in pts } \cup {Infinity}), SetMin({ p[2] : p \in pts } \cup {Infinity}),
      SetMax({ p[1] : p \in pts } \cup {-Infinity}), SetMax({ p[2] : p \in pts } \cup {-Infinity})>>

\* computeBBox looking at the first polygon only.
computeBBoxFirstPolygon(polygons) == bboxOfVertices(polygonVertices(<<polygons[1]>>))

computeBBox(polygons) == bboxOfVertices(polygonVertices(polygons))

(***************************************************************************)
(* normalize, normalizeAddress, tokens, extractHouseNumber, matchScore.    *)
(***************************************************************************)
\* \w of a regular expression, and the class [a-z0-9].
IsWordChar(c) == c \in Digits \cup LowerLetters \cup UpperLetters \cup {"_"}
IsLowerAlnum(c) == c \in Digits \cup LowerLetters

\* asText(value) || null
orNull(text) == IF text = <<>> THEN Null ELSE <<text>>

normalize(value) == orNull(asText(value))

\* String.prototype.toLowerCase
toLowerCase(s) == [i \in 1..Len(s) |-> toLowerChar(s[i])]

\* s.replace(/c/g, r) for characters c and r.
replaceCharByChar(s, c, r) == [i \in 1..Len(s) |-> IF s[i] = c THEN r ELSE s[i]]

\* s.replace(/c/g, repl) for a character c and a string repl, from index i.
RECURSIVE replaceCharFrom(_, _, _, _)
replaceCharFrom(s, c, repl, i) ==
    IF i > Len(s) THEN <<>>
    ELSE (IF s[i] = c THEN repl ELSE <<s[i]>>) \o replaceCharFrom(s, c, repl, i + 1)

replaceChar(s, c, repl) == replaceCharFrom(s, c, repl, 1)

\* Whether /\bword\b/ matches s at index i.
wordAt(s, word, i) ==
    /\ i + Len(word) - 1 <= Len(s)
    /\ SubSeq(s, i, i + Len(word) - 1) = word
    /\ (i = 1 \/ ~IsWordChar(s[i - 1]))
    /\ (i + Len(word) > Len(s) \/ ~IsWordChar(s[i + Len(word)]))

\* s.replace(/\bword\b/g, repl), scanning from index i.
RECURSIVE replaceWordFrom(_, _, _, _)
replaceWordFrom(s, word, repl, i) ==
    IF i > Len(s) THEN <<>>
    ELSE IF wordAt(s, word, i)
      THEN repl \o replaceWordFrom(s, word, repl, i + Len(word))
    ELSE <<s[i]>> \o replaceWordFrom(s, word, repl, i + 1)

replaceWord(s, word, repl) == replaceWordFrom(s, word, repl, 1)

\* s.replace(/\s+/g, ' ')
RECURSIVE collapseSpaces(_, _)
collapseSpaces(s, i) ==
    IF i > Len(s) THEN <<>>
    ELSE IF IsSpace(s[i]) THEN <<" ">> \o collapseSpaces(s, skipSpaces(s, i))
    ELSE <<s[i]>> \o collapseSpaces(s, i + 1)

expandAbbreviations(s) ==
    replaceWord(
      replaceWord(
        replaceWord(s, <<"s", "t">>, <<"s", "t", "r", "e", "e", "t">>),
        <<"r", "d">>, <<"r", "o", "a", "d">>),
      <<"a", "v", "e">>, <<"a", "v", "e", "n", "u", "e">>)

\* normalizeAddress replacing '&' after the whitespace has been collapsed.
normalizeAddressLateAmpersand(value) ==
    IF value = <<>> THEN <<>>
    ELSE trim(replaceChar(
                collapseSpaces(
                  expandAbbreviations(replaceCharByChar(toLowerCase(value), ",", " ")),
                  1),
                "&", <<" ", "a", "n", "d", " ">>))

normalizeAddress(value) ==
    IF value = <<>> THEN <<>>
    ELSE trim(collapseSpaces(
           expandAbbreviations(
             replaceChar(replaceCharByChar(toLowerCase(value), ",", " "),
                         "&", <<" ", "a", "n", "d", " ">>)),
           1))

\* Membership of c in a character class: "word" is \w, "alnum" is [a-z0-9].
InClass(cls, c) == IF cls = "word" THEN IsWordChar(c) ELSE IsLowerAlnum(c)

\* The maximal runs of characters of class cls in s, in order, from index i.
RECURSIVE runsFrom(_, _, _, _)
runsFrom(s, cls, i, cur) ==
    IF i > Len(s) THEN (IF cur = <<>> THEN <<>> ELSE <<cur>>)
    ELSE IF InClass(cls, s[i]) THEN runsFrom(s, cls, i + 1, Append(cur, s[i]))
    ELSE (IF cur = <<>> THEN <<>> ELSE <<cur>>) \o runsFrom(s, cls, i + 1, <<>>)

\* normalizeAddress(value).split(/[^a-z0-9]+/).filter(Boolean)
tokens(value) == runsFrom(normalizeAddress(value), "alnum", 1, <<>>)

AllDigits(w) == \A k \in 1..Len(w) : w[k] \in Digits

firstOrEmpty(hits) == IF hits = <<>> THEN <<>> ELSE hits[1]

\* normalizeAddress(value).match(/\b\d{1,5}\b/): the first maximal run of word
\* characters made of one to five digits only; '' (the empty string) if none.
extractHouseNumber(value) ==
    firstOrEmpty(SelectSeq(runsFrom(normalizeAddress(value), "word", 1, <<>>),
                           LAMBDA w : AllDigits(w) /\ Len(w) <= 5))

Range(f) == { f[k] : k \in DOMAIN f }

\* String.prototype.includes
includes(s, sub) ==
    \E i \in 1..(Len(s) - Len(sub) + 1) : SubSeq(s, i, i + Len(sub) - 1) = sub

\* if (numberA && numberB && numberA === numberB) score += 4
houseNumberSignal(numberA, numberB) ==
    IF numberA # <<>> /\ numberB # <<>> /\ numberA = numberB THEN 4 ELSE 0

\* The overlap loop: the tokens of tokensA that tokensB has.
overlapSignal(tokensA, tokensB) == Cardinality({ token \in tokensA : token \in tokensB })

\* if (addressA && addressB && (addressB.includes(addressA) || ...)) score += 4
substringSignal(addressA, addressB) ==
    IF addressA # <<>> /\ addressB # <<>>
       /\ (includes(addressB, addressA) \/ includes(addressA, addressB))
      THEN 4
    ELSE 0

\* The score with the three signals made exclusive (else-if).
scoreNormalizedExclusive(addressA, nameA, addressB, nameB) ==
    IF houseNumberSignal(extractHouseNumber(addressA), extractHouseNumber(addressB)) > 0
      THEN 4
    ELSE IF overlapSignal(Range(tokens(addressA)) \cup Range(tokens(nameA)),
                          Range(tokens(addressB)) \cup Range(tokens(nameB))) > 0
      THEN overlapSignal(Range(tokens(addressA)) \cup Range(tokens(nameA)),
                         Range(tokens(addressB)) \cup Range(tokens(nameB)))
    ELSE substringSignal(addressA, addressB)

\* matchScore from the four normalised strings on.
scoreNormalized(addressA, nameA, addressB, nameB) ==
    houseNumberSignal(extractHouseNumber(addressA), extractHouseNumber(addressB))
    + overlapSignal(Range(tokens(addressA)) \cup Range(tokens(nameA)),
                    Range(tokens(addressB)) \cup Range(tokens(nameB)))
    + substringSignal(addressA, addressB)

matchScore(targetAddress, targetName, candidate) ==
    scoreNormalized(normalizeAddress(targetAddress), normalizeAddress(targetName),
                    candidate.addressNorm, candidate.siteNameNorm)

(***************************************************************************)
(* loadCBDIndex.  A GeoJSON feature of the polygon file is                 *)
(* [properties |-> [STR_ADR, HRTG_INV_SITE_NAME, SL_HRTG_INV_KEY],         *)
(*  geometry |-> [type, coordinates]]; of the heritage attribute bag the   *)
(* inventory key, site name and address are kept.                          *)
(***************************************************************************)
\* The callback of features.map: Null, or <<index entry>>.
indexEntry(feature) ==
    LET p == feature.properties
        geometry == feature.geometry
        polygons == IF geometry.type = "MultiPolygon" THEN geometry.coordinates
                    ELSE IF geometry.type = "Polygon" THEN <<geometry.coordinates>>
                    ELSE <<>>
        heritageAddress == normalize(p.STR_ADR)
        heritageSiteName == normalize(p.HRTG_INV_SITE_NAME)
    IN  IF (heritageAddress = Null /\ heritageSiteName = Null) \/ Len(polygons) = 0
          THEN Null
        ELSE <<[bbox |-> computeBBox(polygons),
                polygons |-> polygons,
                addressNorm |-> normalizeAddress(IF heritageAddress = Null THEN <<>>
                                                 ELSE heritageAddress[1]),
                siteNameNorm |-> normalizeAddress(IF heritageSiteName = Null THEN <<>>
                                                  ELSE heritageSiteName[1]),
                properties |-> [heritageInventoryKey |-> normalize(p.SL_HRTG_INV_KEY),
                                heritageSiteName |-> heritageSiteName,
                                heritageAddress |-> heritageAddress]]>>

RECURSIVE mapIndexEntries(_)
mapIndexEntries(fs) ==
    IF fs = <<>> THEN <<>>
    ELSE LET e == indexEntry(Head(fs))
         IN  (IF e = Null THEN <<>> ELSE e) \o mapIndexEntries(Tail(fs))

\* loadCBDIndex falling back to a built-in entry when the file is absent.
loadCBDIndexBuiltIn(file) ==
    IF ~file.exists
      THEN <<[bbox |-> <<0, -5000, 3000, 0>>,
              polygons |-> << << << <<0, -5000>>, <<3000, -5000>>, <<3000, 0>>,
                                    <<0, 0>>, <<0, -5000>> >> >> >>,
              addressNorm |-> <<>>,
              siteNameNorm |-> <<>>,
              properties |-> [heritageInventoryKey |-> Null, heritageSiteName |-> Null,
                              heritageAddress |-> Null]]>>
    ELSE mapIndexEntries(file.features)

loadCBDIndex(file) ==
    IF ~file.exists THEN <<>> ELSE mapIndexEntries(file.features)

(***************************************************************************)
(* The body of the row loop.                                               *)
(***************************************************************************)
ADDRESS_MATCH_THRESHOLD == 8
ADDRESS_MATCH_LOW_THRESHOLD == 6

\* The inner polygon loop looking at the first polygon only.
candidateContainsFirstPolygon(candidate, point) ==
    polygonContainsPoint(candidate.polygons[1], point)

\* The inner polygon loop: some polygon of the candidate contains the point.
candidateContains(candidate, point) ==
    \E k \in 1..Len(candidate.polygons) : polygonContainsPoint(candidate.polygons[k], point)

\* The spatial loop without its bounding-box prefilter.
RECURSIVE spatialScanNoPrefilter(_, _, _, _)
spatialScanNoPrefilter(index, point, k, log) ==
    IF k > Len(index) THEN [hit |-> 0, log |-> log]
    ELSE IF candidateContains(index[k], point)
      THEN [hit |-> k, log |-> Append(log, <<"contains", k>>)]
    ELSE spatialScanNoPrefilter(index, point, k + 1, Append(log, <<"contains", k>>))

\* The spatial loop without its break: the last containing candidate wins.
RECURSIVE spatialScanNoBreak(_, _, _, _)
spatialScanNoBreak(index, point, k, log) ==
    IF k > Len(index) THEN [hit |-> 0, log |-> log]
    ELSE LET rest == spatialScanNoBreak(index, point, k + 1,
                                        log \o << <<"bbox", k>>, <<"contains", k>> >>)
         IN  IF rest.hit = 0 /\ pointInBBox(point, index[k].bbox)
                /\ candidateContains(index[k], point)
               THEN [hit |-> k, log |-> rest.log]
             ELSE rest

\* The spatial loop from candidate k on.  hit is the index of the candidate
\* whose properties become heritageContext (0: none); log lists, in order,
\* each bounding-box check and each containment test the loop made.
RECURSIVE spatialScan(_, _, _, _)
spatialScan(index, point, k, log) ==
    IF k > Len(index) THEN [hit |-> 0, log |-> log]
    ELSE IF ~pointInBBox(point, index[k].bbox)
      THEN spatialScan(index, point, k + 1, Append(log, <<"bbox", k>>))
    ELSE IF candidateContains(index[k], point)
      THEN [hit |-> k, log |-> log \o << <<"bbox", k>>, <<"contains", k>> >>]
    ELSE spatialScan(index, point, k + 1, log \o << <<"bbox", k>>, <<"contains", k>> >>)

\* The fuzzy loop replacing the best on an equal score (>= for >).
RECURSIVE fuzzyScanLastWins(_, _, _, _, _)
fuzzyScanLastWins(index, sourceAddress, sourceName, k, best) ==
    IF k > Len(index) THEN best
    ELSE LET score == matchScore(sourceAddress, sourceName, index[k])
         IN  fuzzyScanLastWins(index, sourceAddress, sourceName, k + 1,
                               IF score >= best.bestScore
                                 THEN [bestScore |-> score, bestCandidate |-> k]
                               ELSE best)

\* The fuzzy loop from candidate k on: [bestScore, bestCandidate] (0: null).
RECURSIVE fuzzyScan(_, _, _, _, _)
fuzzyScan(index, sourceAddress, sourceName, k, best) ==
    IF k > Len(index) THEN best
    ELSE LET score == matchScore(sourceAddress, sourceName, index[k])
         IN  fuzzyScan(index, sourceAddress, sourceName, k + 1,
                       IF score > best.bestScore
                         THEN [bestScore |-> score, bestCandidate |-> k]
                       ELSE best)

\* The two threshold branches after the fuzzy loop: "null" when neither is taken.
fuzzyTierSwapped(bestScore, bestCandidate) ==
    IF bestScore >= ADDRESS_MATCH_LOW_THRESHOLD /\ bestCandidate # 0
      THEN [method |-> "address-fuzzy-low", confidence |-> "low"]
    ELSE [method |-> "null", confidence |-> "null"]

fuzzyTier(bestScore, bestCandidate) ==
    IF bestScore >= ADDRESS_MATCH_THRESHOLD /\ bestCandidate # 0
      THEN [method |-> "address-fuzzy", confidence |-> "medium"]
    ELSE IF bestScore >= ADDRESS_MATCH_LOW_THRESHOLD /\ bestCandidate # 0
      THEN [method |-> "address-fuzzy-low", confidence |-> "low"]
    ELSE [method |-> "null", confidence |-> "null"]

\* Number.prototype.toString for n >= 0.
RECURSIVE numberToString(_)
numberToString(n) ==
    LET digit == <<"0", "1", "2", "3", "4", "5", "6", "7", "8", "9">>[(n % 10) + 1]
    IN  IF n < 10 THEN <<digit>> ELSE numberToString(n \div 10) \o <<digit>>

\* The success branch labelling the match "exact-spatial".
spatialMatchExactLabel(index, hit, log) ==
    [heritageContext |-> <<index[hit].properties>>,
     matchMethod |-> "exact-spatial",
     matchScoreValue |-> <<100>>,
     matchConfidence |-> "high",
     candidate |-> hit,
     log |-> log]

\* The outcome of the spatial loop's success branch for candidate hit.
spatialMatch(index, hit, log) ==
    [heritageContext |-> <<index[hit].properties>>,
     matchMethod |-> "spatial-3857",
     matchScoreValue |-> <<100>>,
     matchConfidence |-> "high",
     candidate |-> hit,
     log |-> log]

\* The outcome of if (!heritageContext) {...} given the fuzzy loop's best.
fuzzyMatch(index, best, log) ==
    IF fuzzyTier(best.bestScore, best.bestCandidate).method = "null"
      THEN [heritageContext |-> Null, matchMethod |-> "null",
            matchScoreValue |-> Null, matchConfidence |-> "null",
            candidate |-> 0, log |-> log]
    ELSE [heritageContext |-> <<index[best.bestCandidate].properties>>,
          matchMethod |-> fuzzyTier(best.bestScore, best.bestCandidate).method,
          matchScoreValue |-> <<best.bestScore>>,
          matchConfidence |-> fuzzyTier(best.bestScore, best.bestCandidate).confidence,
          candidate |-> best.bestCandidate,
          log |-> log]

\* The fuzzy fallback tried even when the spatial loop found a candidate.
selectMatchFuzzyFirst(index, sourceAddress, sourceName, spatial) ==
    IF fuzzyScan(index, sourceAddress, sourceName, 1,
                 [bestScore |-> 0, bestCandidate |-> 0]).bestScore >= ADDRESS_MATCH_THRESHOLD
       \/ spatial.hit = 0
      THEN fuzzyMatch(index,
                      fuzzyScan(index, sourceAddress, sourceName, 1,
                                [bestScore |-> 0, bestCandidate |-> 0]),
                      spatial.log \o [k \in 1..Len(index) |-> <<"score", k>>])
    ELSE spatialMatch(index, spatial.hit, spatial.log)

\* The match selection after the spatial loop: heritageContext (Null or
\* <<properties>>), matchMethod, matchScoreValue (Null or <<score>>),
\* matchConfidence; candidate is the index entry attached (0: none) and log
\* what was evaluated, the fuzzy loop scoring every entry.
selectMatch(index, sourceAddress, sourceName, spatial) ==
    IF spatial.hit # 0 THEN spatialMatch(index, spatial.hit, spatial.log)
    ELSE fuzzyMatch(index,
                    fuzzyScan(index, sourceAddress, sourceName, 1,
                              [bestScore |-> 0, bestCandidate |-> 0]),
                    spatial.log \o [k \in 1..Len(index) |-> <<"score", k>>])

\* The match of one row whose coordinates parsed.
matchRow(row, index, coords) ==
    selectMatch(index, asText(row.address), asText(row.name),
                spatialScan(index, projectLonLatTo3857(coords), 1, <<>>))

\* The pushed object with the fallback id counting from zero.
makeFeatureZeroBasedId(row, coords, m, featureCount) ==
    [type |-> "Feature",
     geometry |-> [type |-> "Point", coordinates |-> coords],
     properties |->
       [id |-> IF asText(row.id) # <<>> THEN asText(row.id)
               ELSE <<"r", "o", "w", "-">> \o numberToString(featureCount),
        name |-> asText(row.name),
        address |-> asText(row.address),
        cmaGps |-> asText(row.gps),
        heritage |-> m.heritageContext,
        heritageMatchMethod |-> IF m.heritageContext # Null THEN m.matchMethod ELSE "null",
        heritageMatchScore |-> IF m.heritageContext # Null THEN m.matchScoreValue ELSE Null,
        heritageMatchConfidence |-> IF m.heritageContext # Null THEN m.matchConfidence
                                    ELSE "null",
        hasCBDHeritageMatch |-> m.heritageContext # Null]]

\* The pushed object with the match flag always set.
makeFeatureFlagSet(row, coords, m, featureCount) ==
    [type |-> "Feature",
     geometry |-> [type |-> "Point", coordinates |-> coords],
     properties |->
       [id |-> IF asText(row.id) # <<>> THEN asText(row.id)
               ELSE <<"r", "o", "w", "-">> \o numberToString(featureCount + 1),
        name |-> asText(row.name),
        address |-> asText(row.address),
        cmaGps |-> asText(row.gps),
        heritage |-> m.heritageContext,
        heritageMatchMethod |-> IF m.heritageContext # Null THEN m.matchMethod ELSE "null",
        heritageMatchScore |-> IF m.heritageContext # Null THEN m.matchScoreValue ELSE Null,
        heritageMatchConfidence |-> IF m.heritageContext # Null THEN m.matchConfidence
                                    ELSE "null",
        hasCBDHeritageMatch |-> TRUE]]

\* The object pushed onto features (of the pass-through columns the id, name,
\* address and GPS cell are kept).
makeFeature(row, coords, m, featureCount) ==
    [type |-> "Feature",
     geometry |-> [type |-> "Point", coordinates |-> coords],
     properties |->
       [id |-> IF asText(row.id) # <<>> THEN asText(row.id)
               ELSE <<"r", "o", "w", "-">> \o numberToString(featureCount + 1),
        name |-> asText(row.name),
        address |-> asText(row.address),
        cmaGps |-> asText(row.gps),
        heritage |-> m.heritageContext,
        heritageMatchMethod |-> IF m.heritageContext # Null THEN m.matchMethod ELSE "null",
        heritageMatchScore |-> IF m.heritageContext # Null THEN m.matchScoreValue ELSE Null,
        heritageMatchConfidence |-> IF m.heritageContext # Null THEN m.matchConfidence
                                    ELSE "null",
        hasCBDHeritageMatch |-> m.heritageContext # Null]]

\* Array.prototype.join(sep)
RECURSIVE join(_, _)
join(parts, sep) ==
    IF parts = <<>> THEN <<>>
    ELSE IF Len(parts) = 1 THEN parts[1]
    ELSE parts[1] \o sep \o join(Tail(parts), sep)

\* All sequences over S of length lo..hi.
SeqsOf(S, lo, hi) == UNION { [1..n -> S] : n \in lo..hi }

(***************************************************************************)
(* Inputs of the pure functions.                                           *)
(***************************************************************************)
MaxExtraSegments == 1
GridMax == 4
MaxAddressWords == 2

\* Coordinate halves: [-]numeral[suffix], the suffix an optional degree sign
\* and hemisphere letter.
Numerals == { <<"1", "8", ".", "4", "2">>, <<"3", "3", ".", "9", "1">>, <<"9", "0">>, <<"9", "0", ".", "5">>, <<"1", "2", "0">>, <<"1", "8", "0", ".", "5">>, <<"0">> }
NumeralSigns == { <<>>, <<"-">> }
HemisphereSuffixes == { <<>>, <<" ", "E">>, <<" ", "S">>, <<Deg, "S">>, <<"N">>, <<" ", Deg, " ", "w">> }
Halves == { sg \o nm \o sf : sg \in NumeralSigns, nm \in Numerals, sf \in HemisphereSuffixes }
JunkSegments == { <<"a", "b", "c">>, <<>>, <<" ">>, <<"x", "7">>, <<"N">> }
Segments == Halves \cup JunkSegments
CoreSegments == { <<"1", "8", ".", "4", "2">>, <<"-">> \o <<"3", "3", ".", "9", "1">>, <<"a", "b", "c">>, <<>> }
ExtraSegments == JunkSegments \cup { <<"7">> }

\* The separator written between the segments of a GPS cell.
Comma == <<",", " ">>

GpsSegmentLists ==
    SeqsOf(Segments, 1, 2)
    \cup { core \o extra : core \in SeqsOf(CoreSegments, 2, 2),
                           extra \in SeqsOf(ExtraSegments, 1, MaxExtraSegments) }

\* The spec's example cell, with more decimals than the model keeps.
ExampleSegments == <<<<"1", "8", ".", "4", "2", "3", "3">>, <<"-", "3", "3", ".", "9", "1", "8", "9">>>>

GpsCalls == { [fn |-> "parseGps", segments |-> segs, gpsValue |-> join(segs, Comma)]
              : segs \in GpsSegmentLists \cup {ExampleSegments} }

\* Coordinate halves given to parseCoord for either axis, blanks around them.
CoordCalls ==
    { [fn |-> "parseCoord", sign |-> sg, numeral |-> nm, suffix |-> sf,
       value |-> pad \o sg \o nm \o sf \o pad, axis |-> ax]
      : sg \in NumeralSigns, nm \in Numerals, sf \in HemisphereSuffixes,
        pad \in { <<>>, <<" ">> }, ax \in {"lon", "lat"} }

(***************************************************************************)
(* Inputs of the script: the two files.                                    *)
(***************************************************************************)
MaxRows == 2
MaxCandidates == 2

\* A closed rectangular ring with corners (a, b) and (c, d).
Rect(a, b, c, d) == << <<a, b>>, <<c, b>>, <<c, d>>, <<a, d>>, <<a, b>> >>

\* Workbook rows: the CMA_GPS cell, the address column, the name column, '#'.
Row(gps, address, name, id) == [gps |-> gps, address |-> address, name |-> name, id |-> id]

\* GPS cells and where the model's projection puts them:
\* "18.42, -33.91" at (2050, -4036), "18.45, -33.91" at (2053, -4036),
\* "10, -10" at (1113, -1119).
SheetRows ==
    { Row(<<"1", "0", ",", " ", "-", "1", "0">>, <<" ", "1", "2", "1", " ", "L", "o", "n", "g", " ", "S", "t", " ">>, <<>>, <<>>),
      Row(<<"1", "0", ",", " ", "-", "1", "0">>, <<"L", "o", "n", "g", " ", "S", "t">>, <<"H", "a", "l", "l">>, <<"4">>),
      Row(<<"1", "8", ".", "4", "5", ",", " ", "-", "3", "3", ".", "9", "1">>, <<>>, <<>>, <<" ">>),
      Row(<<"a", "b", "c", ",", " ", "-", "3", "3", ".", "9", "1">>, <<"5", " ", "M", "a", "i", "n", " ", "R", "d">>, <<"O", "l", "d", " ", "H", "a", "l", "l">>, <<"6">>),
      Row(<<"1", "8", ".", "4", "2", ",", " ", "-", "3", "3", ".", "9", "1">>, <<"5", " ", "M", "a", "i", "n", " ", "R", "d">>, <<"O", "l", "d", " ", "H", "a", "l", "l">>, <<"7">>) }

\* A sheet whose second row does not parse, between two rows that do.
GappedSheet ==
    <<Row(<<"1", "8", ".", "4", "2", ",", " ", "-", "3", "3", ".", "9", "1">>, <<"5", " ", "M", "a", "i", "n", " ", "R", "d">>, <<"O", "l", "d", " ", "H", "a", "l", "l">>, <<"7">>),
      Row(<<"a", "b", "c", ",", " ", "-", "3", "3", ".", "9", "1">>, <<"5", " ", "M", "a", "i", "n", " ", "R", "d">>, <<"O", "l", "d", " ", "H", "a", "l", "l">>, <<"6">>),
      Row(<<"1", "0", ",", " ", "-", "1", "0">>, <<"L", "o", "n", "g", " ", "S", "t">>, <<"H", "a", "l", "l">>, <<"4">>)>>

Workbooks ==
    { [exists |-> TRUE, rows |-> r] : r \in SeqsOf(SheetRows, 0, MaxRows) \cup {GappedSheet} }
    \cup { [exists |-> FALSE, rows |-> <<>>] }

GeoFeature(address, name, key, type, coordinates) ==
    [properties |-> [STR_ADR |-> address, HRTG_INV_SITE_NAME |-> name, SL_HRTG_INV_KEY |-> key],
     geometry |-> [type |-> type, coordinates |-> coordinates]]

\* A: a polygon with a hole around (2053, -4036).  B: a polygon overlapping A
\* and covering A's hole.  C: a multi-polygon elsewhere, with a site name only.
\* D: neither address nor site name.
FeatureA == GeoFeature(<<"1", "2", "1", " ", "L", "o", "n", "g", " ", "S", "t", "r", "e", "e", "t">>, <<>>, <<"A">>, "Polygon",
                       <<Rect(2040, -4050, 2056, -4020), Rect(2052, -4040, 2055, -4030)>>)
FeatureB == GeoFeature(<<"5", " ", "M", "a", "i", "n", " ", "R", "d">>, <<"O", "l", "d", " ", "H", "a", "l", "l">>, <<"B">>, "Polygon",
                       <<Rect(2045, -4045, 2065, -4025)>>)
FeatureC == GeoFeature(<<>>, <<"L", "o", "n", "g", " ", "S", "t", "r", "e", "e", "t", " ", "H", "a", "l", "l">>, <<"C">>, "MultiPolygon",
                       << <<Rect(2110, -4055, 2120, -4040), Rect(2113, -4050, 2117, -4045)>>,
                          <<Rect(2112, -4051, 2118, -4044)>> >>)
FeatureD == GeoFeature(<<" ">>, <<>>, <<"D">>, "Polygon", <<Rect(2045, -4045, 2065, -4025)>>)

GeoFeatures == { FeatureA, FeatureB, FeatureC, FeatureD }

IsInjective(f) == \A i, j \in DOMAIN f : f[i] = f[j] => i = j

CbdFiles ==
    { [exists |-> TRUE, features |-> f]
      : f \in { g \in SeqsOf(GeoFeatures, 0, MaxCandidates) : IsInjective(g) } }
    \cup { [exists |-> FALSE, features |-> <<>>] }

\* The values new Date() may take.
Timestamps == { 1, 2 }

\* Rings on the lattice 0..GridMax: every rectangle, and a triangle, a ring
\* left unclosed, a concave ring, a clockwise rectangle and the empty ring.
GridRects ==
    { Rect(q[1], q[2], q[3], q[4])
      : q \in { r \in (0..GridMax) \X (0..GridMax) \X (0..GridMax) \X (0..GridMax)
                : r[1] < r[3] /\ r[2] < r[4] } }
OtherRings ==
    { <<>>,
      << <<0, 0>>, <<GridMax, 0>>, <<0, GridMax>>, <<0, 0>> >>,
      << <<0, 0>>, <<GridMax, 0>>, <<GridMax, GridMax>>, <<0, GridMax>> >>,
      << <<0, 0>>, <<GridMax, 0>>, <<GridMax, 2>>, <<2, 2>>, <<2, GridMax>>, <<0, GridMax>>, <<0, 0>> >>,
      << <<0, 0>>, <<0, GridMax>>, <<GridMax, GridMax>>, <<GridMax, 0>>, <<0, 0>> >> }
ExteriorRings == GridRects \cup OtherRings
HoleLists ==
    { <<>>,
      <<Rect(1, 1, 3, 3)>>,
      <<Rect(1, 1, 2, 3), Rect(2, 1, 3, 3)>>,
      << << <<1, 1>>, <<3, 1>>, <<1, 3>>, <<1, 1>> >> >>,
      <<Rect(0, 0, 1, 1), Rect(1, 1, 3, 3)>> }
GridPoints == { <<x, y>> : x \in (-1)..(GridMax + 1), y \in (-1)..(GridMax + 1) }

PolygonCalls ==
    { [fn |-> "polygonContainsPoint", rings |-> <<e>> \o h, point |-> pt]
      : e \in ExteriorRings, h \in HoleLists, pt \in GridPoints }
    \cup { [fn |-> "polygonContainsPoint", rings |-> <<>>, point |-> pt] : pt \in GridPoints }

\* Index entries as loadCBDIndex builds them, from Polygon features (one
\* exterior of any of the shapes above, at most one hole) and two-polygon
\* MultiPolygon features.
LatticeGeometries ==
    { [type |-> "Polygon", coordinates |-> <<e>> \o h]
      : e \in ExteriorRings, h \in { <<>>, <<Rect(1, 1, 3, 3)>> } }
    \cup { [type |-> "MultiPolygon", coordinates |-> <<first, <<e2>> >>]
           : first \in { <<Rect(0, 0, 4, 4), Rect(1, 1, 3, 3)>>,
                         <<Rect(0, 0, 2, 2), Rect(0, 0, 1, 1)>> },
             e2 \in GridRects }
LatticeCandidate(g) ==
    indexEntry([properties |-> [STR_ADR |-> <<"x">>, HRTG_INV_SITE_NAME |-> <<>>,
                                SL_HRTG_INV_KEY |-> <<>>],
                geometry |-> g])[1]
LatticeCandidates == { LatticeCandidate(g) : g \in LatticeGeometries }
SpatialCalls ==
    { [fn |-> "spatialScan", candidate |-> LatticeCandidate(g), geometry |-> g, point |-> pt]
      : g \in LatticeGeometries, pt \in GridPoints }

\* Source addresses: up to MaxAddressWords words joined by spaces, and the
\* spec's example; candidates carry what loadCBDIndex derives from STR_ADR and
\* HRTG_INV_SITE_NAME.
AddressWords == { <<"1", "2", "1">>, <<"1", "2">>, <<"L", "o", "n", "g">>, <<"S", "t">>, <<"s", "t", "r", "e", "e", "t">>, <<"&">>, <<"R", "d", ",">> }
SourceAddresses ==
    { join(w, <<" ">>) : w \in SeqsOf(AddressWords, 0, MaxAddressWords) }
    \cup { <<"1", "2", "1", " ", "L", "o", "n", "g", " ", "S", "t">>, <<" ", "1", "2", "1", " ", " ", "l", "o", "n", "g", " ", "s", "t", " ">> }
SourceNames == { <<>>, <<"H", "a", "l", "l">>, <<"L", "o", "n", "g", " ", "S", "t">> }
ScoreCandidates ==
    { indexEntry(GeoFeature(pair[1], pair[2], <<>>, "Polygon", <<Rect(0, 0, 1, 1)>>))[1]
      : pair \in { <<<<"1", "2", "1", " ", "L", "o", "n", "g", " ", "S", "t", "r", "e", "e", "t">>, <<>>>>,
                   <<<<"1", "2", "1", " ", "l", "o", "n", "g", " ", "s", "t", "r", "e", "e", "t">>, <<>>>>,
                   <<<<"5", " ", "M", "a", "i", "n", " ", "R", "d">>, <<"O", "l", "d", " ", "H", "a", "l", "l">>>>,
                   <<<<>>, <<"L", "o", "n", "g", " ", "S", "t", "r", "e", "e", "t", " ", "H", "a", "l", "l">>>>,
                   <<<<"L", "o", "n", "g", " ", "S", "t">>, <<"1", "2", "1">>>>,
                   <<<<"1", "2", " ", "L", "o", "n", "g", " ", "S", "t", " ", "&", " ", "M", "a", "i", "n", " ", "R", "d">>, <<>>>> } }
ScoreCalls ==
    { [fn |-> "matchScore", targetAddress |-> a, targetName |-> n, candidate |-> c]
      : a \in SourceAddresses, n \in SourceNames, c \in ScoreCandidates }

\* Fuzzy fallbacks: a source address and name against an index of up to
\* MaxCandidates of the candidates above, repetitions and equal scores included.
FuzzySources ==
    { <<<<"1", "2", "1", " ", "L", "o", "n", "g", " ", "S", "t">>, <<>>>>, <<<<"L", "o", "n", "g", " ", "S", "t">>, <<"H", "a", "l", "l">>>>, <<<<>>, <<"H", "a", "l", "l">>>>, <<<<>>, <<>>>>,
      <<<<"5", " ", "M", "a", "i", "n", " ", "R", "d">>, <<>>>> }
FuzzyCalls ==
    { [fn |-> "fuzzyScan", index |-> ix, sourceAddress |-> src[1], sourceName |-> src[2]]
      : ix \in SeqsOf(ScoreCandidates, 0, MaxCandidates), src \in FuzzySources }

\* Strings for normalizeAddress: up to MaxPieces pieces written one after
\* the other: the abbreviations in either case, separators, a digit, letters.
MaxPieces == 3
AddressPieces == { <<"S", "t">>, <<"r", "d">>, <<"A", "v", "e">>, <<"&">>, <<",">>, <<" ">>, <<"7">>, <<"a">>, <<"_">> }

RECURSIVE concat(_)
concat(parts) == IF parts = <<>> THEN <<>> ELSE Head(parts) \o concat(Tail(parts))

NormalizeCalls ==
    { [fn |-> "normalizeAddress", value |-> concat(pieces)]
      : pieces \in SeqsOf(AddressPieces, 0, MaxPieces) }

\* Polygon-file features for loadCBDIndex: address and site name blank or
\* not, and every kind of geometry: a Polygon and a MultiPolygon around
\* (2050, -4036), each also with an empty coordinate list, a Point, and the
\* {} that stands in for a missing geometry.
IndexShapes ==
    { [address |-> ad, name |-> nm, type |-> g[1], coordinates |-> g[2]]
      : ad \in { <<" ">>, <<"5", " ", "M", "a", "i", "n", " ", "R", "d">> },
        nm \in { <<>>, <<"O", "l", "d", " ", "H", "a", "l", "l">> },
        g \in { <<"Polygon", <<Rect(2045, -4045, 2065, -4025)>> >>,
                <<"Polygon", <<>> >>,
                <<"MultiPolygon", << <<Rect(2045, -4045, 2065, -4025)>> >> >>,
                <<"MultiPolygon", <<>> >>,
                <<"Point", <<2050, -4036>> >>,
                <<"undefined", <<>> >> } }

\* The features of a file, the inventory key of each its position.
KeyedFeatures(shapes) ==
    [k \in 1..Len(shapes) |->
       GeoFeature(shapes[k].address, shapes[k].name, numberToString(k),
                  shapes[k].type, shapes[k].coordinates)]

\* The row matched against the loaded index: "18.42, -33.91", 5 Main Rd.
ProbeRow == Row(<<"1", "8", ".", "4", "2", ",", " ", "-", "3", "3", ".", "9", "1">>, <<"5", " ", "M", "a", "i", "n", " ", "R", "d">>, <<"O", "l", "d", " ", "H", "a", "l", "l">>, <<"7">>)

IndexCalls ==
    { [fn |-> "loadCBDIndex", file |-> [exists |-> TRUE, features |-> KeyedFeatures(shapes)],
       row |-> ProbeRow]
      : shapes \in SeqsOf(IndexShapes, 0, MaxCandidates) }

\* The script's variables before it starts (and while a function is tested).
PipeStart ==
    /\ pc = "start"
    /\ cbdIndex = <<>>
    /\ rows = <<>>
    /\ rowIndex = 0
    /\ features = <<>>
    /\ skipped = 0
    /\ matchedCBD = 0
    /\ outputFile = Null
    /\ scanLog = Null
    /\ prevOutput = Null

PipeIdle ==
    /\ workbookFile = [exists |-> FALSE, rows |-> <<>>]
    /\ cbdFile = [exists |-> FALSE, features |-> <<>>]
    /\ PipeStart

FnIdle ==
    /\ fnCall = Null
    /\ fnRet = Pending
    /\ fnPrev = Null

\* The viewer as the page's markup and the declaration of state leave it,
\* before any data is loaded.
ViewIdle ==
    /\ data = Null
    /\ filteredFeatures = <<>>
    /\ selectedId = Null
    /\ search = <<>>
    /\ usage = <<"a", "l", "l">>
    /\ zoning = <<"a", "l", "l">>
    /\ heritageGrade = <<"a", "l", "l">>
    /\ styleKey = "light"
    /\ view = "trends"
    /\ heritageBound = FALSE
    /\ layerHandlers = <<>>
    /\ styleLoadOnce = 0
    /\ mapLoaded = FALSE
    /\ sourceData = Null
    /\ selectedPointFilter = Null
    /\ siteList = <<>>
    /\ detailCard = [hidden |-> TRUE, innerHTML |-> Null]
    /\ styleToggleDisabled = FALSE

FnInit ==
    /\ \/ fnCall \in GpsCalls
       \/ fnCall \in PolygonCalls
       \/ fnCall \in SpatialCalls
       \/ fnCall \in ScoreCalls
       \/ fnCall \in FuzzyCalls
       \/ fnCall \in CoordCalls
       \/ fnCall \in IndexCalls
       \/ fnCall \in NormalizeCalls
    /\ fnRet = Pending
    /\ fnPrev = Null
    /\ PipeIdle
    /\ ViewIdle

\* loadCBDIndex on the file, and the row loop's matching against its result.
ApplyLoadCBDIndex ==
    /\ fnCall.fn = "loadCBDIndex"
    /\ fnRet = Pending
    /\ \E index \in { loadCBDIndex(fnCall.file) } :
         fnRet' = Returned([index |-> index,
                            match |-> matchRow(fnCall.row, index, parseGps(fnCall.row.gps))])
    /\ UNCHANGED <<fnCall, fnPrev>>
    /\ UNCHANGED <<pipeVars, viewVars>>

\* normalizeAddress applied to a string, and again to what it returned.
ApplyNormalizeAddress ==
    /\ fnCall.fn = "normalizeAddress"
    /\ fnRet = Pending
    /\ \E once \in { normalizeAddress(fnCall.value) } :
         fnRet' = Returned([once |-> once, twice |-> normalizeAddress(once)])
    /\ UNCHANGED <<fnCall, fnPrev>>
    /\ UNCHANGED <<pipeVars, viewVars>>

\* parseCoord applied to a coordinate half and an axis.
ApplyParseCoord ==
    /\ fnCall.fn = "parseCoord"
    /\ fnRet = Pending
    /\ fnRet' = Returned(parseCoord(fnCall.value, fnCall.axis))
    /\ UNCHANGED <<fnCall, fnPrev>>
    /\ UNCHANGED <<pipeVars, viewVars>>

\* parseGps applied to the cell.
ApplyParseGps ==
    /\ fnCall.fn = "parseGps"
    /\ fnRet = Pending
    /\ fnRet' = Returned(parseGps(fnCall.gpsValue))
    /\ UNCHANGED <<fnCall, fnPrev>>
    /\ UNCHANGED <<pipeVars, viewVars>>

\* The same two coordinate halves presented in the other order.
SwapHalves ==
    /\ fnCall.fn = "parseGps"
    /\ fnRet # Pending
    /\ fnPrev = Null
    /\ Len(fnCall.segments) = 2
    /\ LET segs == <<fnCall.segments[2], fnCall.segments[1]>>
       IN  fnCall' = [fn |-> "parseGps", segments |-> segs, gpsValue |-> join(segs, Comma)]
    /\ fnPrev' = <<[call |-> fnCall, ret |-> fnRet[1]]>>
    /\ fnRet' = Pending
    /\ UNCHANGED <<pipeVars, viewVars>>

\* polygonContainsPoint applied to a ring list and a point.
ApplyPolygonContainsPoint ==
    /\ fnCall.fn = "polygonContainsPoint"
    /\ fnRet = Pending
    /\ fnRet' = Returned(polygonContainsPoint(fnCall.rings, fnCall.point))
    /\ UNCHANGED <<fnCall, fnPrev>>
    /\ UNCHANGED <<pipeVars, viewVars>>

\* The spatial loop run over an index holding one candidate.
ApplySpatialScan ==
    /\ fnCall.fn = "spatialScan"
    /\ fnRet = Pending
    /\ fnRet' = Returned(spatialScan(<<fnCall.candidate>>, fnCall.point, 1, <<>>))
    /\ UNCHANGED <<fnCall, fnPrev>>
    /\ UNCHANGED <<pipeVars, viewVars>>

\* matchScore applied to a source address and name and a candidate.
ApplyMatchScore ==
    /\ fnCall.fn = "matchScore"
    /\ fnRet = Pending
    /\ fnRet' = Returned(matchScore(fnCall.targetAddress, fnCall.targetName, fnCall.candidate))
    /\ UNCHANGED <<fnCall, fnPrev>>
    /\ UNCHANGED <<pipeVars, viewVars>>

\* The fuzzy fallback run for a row no polygon contains: the loop's best and
\* the match the thresholds make of it.
ApplyFuzzyScan ==
    /\ fnCall.fn = "fuzzyScan"
    /\ fnRet = Pending
    /\ fnRet' = Returned([best |-> fuzzyScan(fnCall.index, fnCall.sourceAddress,
                                             fnCall.sourceName, 1,
                                             [bestScore |-> 0, bestCandidate |-> 0]),
                          match |-> selectMatch(fnCall.index, fnCall.sourceAddress,
                                                fnCall.sourceName,
                                                [hit |-> 0, log |-> <<>>])])
    /\ UNCHANGED <<fnCall, fnPrev>>
    /\ UNCHANGED <<pipeVars, viewVars>>

FnNext ==
    \/ ApplyParseGps
    \/ SwapHalves
    \/ ApplyPolygonContainsPoint
    \/ ApplySpatialScan
    \/ ApplyMatchScore
    \/ ApplyFuzzyScan
    \/ ApplyParseCoord
    \/ ApplyLoadCBDIndex
    \/ ApplyNormalizeAddress

FnSpec == FnInit /\ [][FnNext]_vars

\* The iteration for a row whose coordinates parsed, given its match m.
emitRow(row, coords, m, featureCount) ==
    [skip |-> FALSE,
     matched |-> m.heritageContext # Null,
     feature |-> <<makeFeature(row, coords, m, featureCount)>>,
     coords |-> coords,
     point |-> projectLonLatTo3857(coords),
     candidate |-> m.candidate,
     log |-> m.log]

\* The iteration with the skip branch emitting a feature without geometry.
rowOutcomeOfNullGeometry(row, index, featureCount, coords) ==
    IF coords = Null
      THEN [skip |-> FALSE, matched |-> FALSE,
            feature |-> <<makeFeature(row, Null,
                                      [heritageContext |-> Null, matchMethod |-> "null",
                                       matchScoreValue |-> Null, matchConfidence |-> "null"],
                                      featureCount)>>,
            coords |-> Null, point |-> Null, candidate |-> 0, log |-> <<>>]
    ELSE emitRow(row, coords, matchRow(row, index, coords), featureCount)

\* The iteration with a skipped row counted among the matched ones.
rowOutcomeOfSkipCounted(row, index, featureCount, coords) ==
    IF coords = Null
      THEN [skip |-> TRUE, matched |-> TRUE, feature |-> Null, coords |-> Null,
            point |-> Null, candidate |-> 0, log |-> <<>>]
    ELSE emitRow(row, coords, matchRow(row, index, coords), featureCount)

\* The iteration given parseGps's result: if (!coords) { skipped += 1; continue }
rowOutcomeOf(row, index, featureCount, coords) ==
    IF coords = Null
      THEN [skip |-> TRUE, matched |-> FALSE, feature |-> Null, coords |-> Null,
            point |-> Null, candidate |-> 0, log |-> <<>>]
    ELSE emitRow(row, coords, matchRow(row, index, coords), featureCount)

\* What one loop iteration does with row, features holding featureCount entries.
rowOutcome(row, index, featureCount) ==
    rowOutcomeOf(row, index, featureCount, parseGps(row.gps))

(***************************************************************************)
(* The script, top to bottom.                                              *)
(***************************************************************************)
Init ==
    /\ workbookFile \in Workbooks
    /\ cbdFile \in CbdFiles
    /\ PipeStart
    /\ FnIdle
    /\ ViewIdle

\* The script without the workbook check: it goes on to load the index.
CheckWorkbookNoThrow ==
    /\ pc = "start"
    /\ pc' = "loadIndex"
    /\ UNCHANGED <<workbookFile, cbdFile, cbdIndex, rows, rowIndex, features,
                   skipped, matchedCBD, outputFile, scanLog>>
    /\ UNCHANGED <<fnVars, prevOutput, viewVars>>

\* if (!fs.existsSync(workbookPath)) throw ...
CheckWorkbook ==
    /\ pc = "start"
    /\ pc' = IF workbookFile.exists THEN "loadIndex" ELSE "aborted"
    /\ UNCHANGED <<workbookFile, cbdFile, cbdIndex, rows, rowIndex, features,
                   skipped, matchedCBD, outputFile, scanLog>>
    /\ UNCHANGED <<fnVars, prevOutput, viewVars>>

\* const cbdIndex = loadCBDIndex()
LoadIndex ==
    /\ pc = "loadIndex"
    /\ cbdIndex' = loadCBDIndex(cbdFile)
    /\ pc' = "readRows"
    /\ UNCHANGED <<workbookFile, cbdFile, rows, rowIndex, features,
                   skipped, matchedCBD, outputFile, scanLog>>
    /\ UNCHANGED <<fnVars, prevOutput, viewVars>>

\* XLSX.readFile ... sheet_to_json; features = [], skipped = 0, matchedCBD = 0
ReadRows ==
    /\ pc = "readRows"
    /\ rows' = workbookFile.rows
    /\ features' = <<>>
    /\ skipped' = 0
    /\ matchedCBD' = 0
    /\ rowIndex' = 0
    /\ pc' = "loop"
    /\ UNCHANGED <<workbookFile, cbdFile, cbdIndex, outputFile, scanLog>>
    /\ UNCHANGED <<fnVars, prevOutput, viewVars>>

\* The iteration putting the new feature in front of the earlier ones.
ProcessRowPrepend ==
    /\ pc = "loop"
    /\ rowIndex < Len(rows)
    /\ \E o \in { rowOutcome(rows[rowIndex + 1], cbdIndex, Len(features)) } :
         /\ skipped' = IF o.skip THEN skipped + 1 ELSE skipped
         /\ features' = IF o.skip THEN features ELSE <<o.feature[1]>> \o features
         /\ matchedCBD' = IF o.matched THEN matchedCBD + 1 ELSE matchedCBD
         /\ scanLog' = <<[row |-> rowIndex + 1, coords |-> o.coords, point |-> o.point,
                          candidate |-> o.candidate, log |-> o.log]>>
    /\ rowIndex' = rowIndex + 1
    /\ UNCHANGED <<workbookFile, cbdFile, pc, cbdIndex, rows, outputFile>>
    /\ UNCHANGED <<fnVars, prevOutput, viewVars>>

\* One iteration of for (const row of rows).
ProcessRow ==
    /\ pc = "loop"
    /\ rowIndex < Len(rows)
    /\ \E o \in { rowOutcome(rows[rowIndex + 1], cbdIndex, Len(features)) } :
         /\ skipped' = IF o.skip THEN skipped + 1 ELSE skipped
         /\ features' = IF o.skip THEN features ELSE Append(features, o.feature[1])
         /\ matchedCBD' = IF o.matched THEN matchedCBD + 1 ELSE matchedCBD
         /\ scanLog' = <<[row |-> rowIndex + 1, coords |-> o.coords, point |-> o.point,
                          candidate |-> o.candidate, log |-> o.log]>>
    /\ rowIndex' = rowIndex + 1
    /\ UNCHANGED <<workbookFile, cbdFile, pc, cbdIndex, rows, outputFile>>
    /\ UNCHANGED <<fnVars, prevOutput, viewVars>>

\* The write appending this run's features to those already in the file.
WriteSnapshotAppend ==
    /\ pc = "loop"
    /\ rowIndex = Len(rows)
    /\ \E now \in Timestamps :
         outputFile' = <<[type |-> "FeatureCollection",
                          generatedAt |-> now,
                          sourceWorkbook |-> "workbook",
                          sourceCBDGeoJSON |-> IF cbdFile.exists THEN "cbd" ELSE "null",
                          totalRows |-> Len(rows),
                          skippedRows |-> skipped,
                          matchedCBDHeritageRows |-> matchedCBD,
                          features |-> (IF outputFile = Null THEN <<>>
                                        ELSE outputFile[1].features) \o features]>>
    /\ pc' = "done"
    /\ UNCHANGED <<workbookFile, cbdFile, cbdIndex, rows, rowIndex, features,
                   skipped, matchedCBD, scanLog>>
    /\ UNCHANGED <<fnVars, prevOutput, viewVars>>

\* const geojson = {...}; fs.writeFileSync(outputPath, ...)
WriteSnapshot ==
    /\ pc = "loop"
    /\ rowIndex = Len(rows)
    /\ \E now \in Timestamps :
         outputFile' = <<[type |-> "FeatureCollection",
                          generatedAt |-> now,
                          sourceWorkbook |-> "workbook",
                          sourceCBDGeoJSON |-> IF cbdFile.exists THEN "cbd" ELSE "null",
                          totalRows |-> Len(rows),
                          skippedRows |-> skipped,
                          matchedCBDHeritageRows |-> matchedCBD,
                          features |-> features]>>
    /\ pc' = "done"
    /\ UNCHANGED <<workbookFile, cbdFile, cbdIndex, rows, rowIndex, features,
                   skipped, matchedCBD, scanLog>>
    /\ UNCHANGED <<fnVars, prevOutput, viewVars>>

Next == CheckWorkbook \/ LoadIndex \/ ReadRows \/ ProcessRow \/ WriteSnapshot

Spec == Init /\ [][Next]_vars

\* The script run once more on the same two files: its variables start
\* afresh, the file it wrote stays on disk.
Rerun ==
    /\ pc = "done"
    /\ prevOutput = Null
    /\ prevOutput' = outputFile
    /\ pc' = "start"
    /\ cbdIndex' = <<>>
    /\ rows' = <<>>
    /\ rowIndex' = 0
    /\ features' = <<>>
    /\ skipped' = 0
    /\ matchedCBD' = 0
    /\ scanLog' = Null
    /\ UNCHANGED <<workbookFile, cbdFile, outputFile>>
    /\ UNCHANGED <<fnVars, viewVars>>

RerunNext == Next \/ Rerun

\* Two runs of the script, one after the other.
RerunSpec == Init /\ [][RerunNext]_vars

\* WF_vars(LoadIndex) and WF_vars(ProcessRow), with ENABLED written out as
\* the action's guard (each of the two changes pc or rowIndex when it runs).
LoadIndexFair == []<>(pc # "loadIndex") \/ []<><<LoadIndex>>_vars

ProcessRowFair == []<>~(pc = "loop" /\ rowIndex < Len(rows)) \/ []<><<ProcessRow>>_vars

\* The script is one thread of control: a statement that can run does run.
LiveSpec ==
    /\ Init
    /\ [][Next]_vars
    /\ WF_vars(CheckWorkbook)
    /\ LoadIndexFair
    /\ WF_vars(ReadRows)
    /\ ProcessRowFair
    /\ WF_vars(WriteSnapshot)

(***************************************************************************)
(* The viewer (main.js): state, the map's sources, layers and listeners,   *)
(* and the event handlers wired by wireInputs and init.  A feature is      *)
(* [properties |-> [id, name, address, significance, owner, usage, zoning, *)
(* heritageCityGrade]]; ids are the non-empty strings the pipeline writes, *)
(* the other properties strings as above, '' and null both <<>>.  What a   *)
(* handler only draws (stats, trends, camera, terrain, cursor) is left out.*)
(***************************************************************************)
ALL == <<"a", "l", "l">>

styleOrder == <<"light", "dark", "satellite3d">>

\* String(text || '').toLowerCase()
viewerNormalize(text) == toLowerCase(text)

\* String(value) for an id or the null of state.selectedId.
String(value) == IF value = Null THEN "null" ELSE value[1]

\* Whether state.selectedId is truthy.
Truthy(id) == id # Null /\ id[1] # ""

\* [p.name, ..., p.zoning].map(normalize).join(' ')
haystack(p) ==
    join(<<viewerNormalize(p.name), viewerNormalize(p.address),
           viewerNormalize(p.significance), viewerNormalize(p.owner),
           viewerNormalize(p.usage), viewerNormalize(p.zoning)>>, <<" ">>)

\* The callback of state.data.features.filter in applyFilters, the search
\* text already normalised.
filterCallbackAnyUsage(p, s, searchNorm) ==
    IF s.zoning # ALL /\ p.zoning # s.zoning THEN FALSE
    ELSE IF s.heritageGrade # ALL /\ p.heritageCityGrade # s.heritageGrade THEN FALSE
    ELSE IF searchNorm = <<>> THEN TRUE
    ELSE includes(haystack(p), searchNorm)

filterCallback(p, s, searchNorm) ==
    IF s.usage # ALL /\ p.usage # s.usage THEN FALSE
    ELSE IF s.zoning # ALL /\ p.zoning # s.zoning THEN FALSE
    ELSE IF s.heritageGrade # ALL /\ p.heritageCityGrade # s.heritageGrade THEN FALSE
    ELSE IF searchNorm = <<>> THEN TRUE
    ELSE includes(haystack(p), searchNorm)

\* state.filteredFeatures.some(feature => String(feature.properties.id) === String(id))
someHasId(fs, id) == \E k \in 1..Len(fs) : fs[k].properties.id = String(id)

\* featureById: Null or <<feature>>.
featureById(s, id) ==
    IF someHasId(s.filteredFeatures, id)
      THEN <<s.filteredFeatures[CHOOSE k \in 1..Len(s.filteredFeatures) :
                                  /\ s.filteredFeatures[k].properties.id = String(id)
                                  /\ \A j \in 1..(k - 1) :
                                       s.filteredFeatures[j].properties.id # String(id)]>>
    ELSE Null

currentCollection(s) == s.filteredFeatures

\* updateSelectedLayer: the filter is set where the layer exists.
updateSelectedLayer(s) ==
    IF s.selectedPointFilter = Null THEN s
    ELSE [s EXCEPT !.selectedPointFilter =
                     <<IF Truthy(s.selectedId) THEN String(s.selectedId) ELSE "">>]

\* updateSourceData: setData where the source exists.
updateSourceData(s) ==
    IF s.sourceData = Null THEN s ELSE [s EXCEPT !.sourceData = <<currentCollection(s)>>]

renderList(s) ==
    [s EXCEPT !.siteList =
       [k \in 1..Len(s.filteredFeatures) |->
          [id |-> s.filteredFeatures[k].properties.id,
           active |-> s.filteredFeatures[k].properties.id = String(s.selectedId)]]]

\* syncDetailCard given the feature looked up; the card's markup is kept as
\* the properties it is written from.
syncDetailCardFor(s, feature) ==
    IF feature = Null \/ s.view # "map"
      THEN updateSelectedLayer([s EXCEPT !.detailCard = [hidden |-> TRUE, innerHTML |-> Null]])
    ELSE updateSelectedLayer(
           [s EXCEPT !.detailCard = [hidden |-> FALSE, innerHTML |-> <<feature[1].properties>>]])

\* syncDetailCard leaving the card as it is when the view is not the map.
syncDetailCardStale(s) ==
    IF s.view # "map" THEN updateSelectedLayer(s)
    ELSE syncDetailCardFor(s, IF Truthy(s.selectedId) THEN featureById(s, s.selectedId) ELSE Null)

syncDetailCard(s) ==
    syncDetailCardFor(s, IF Truthy(s.selectedId) THEN featureById(s, s.selectedId) ELSE Null)

\* applyFilters keeping the selection whatever the filter leaves.
applyFiltersKeepSelection(s) ==
    syncDetailCard(renderList(updateSourceData(
      [s EXCEPT !.filteredFeatures =
                  SelectSeq(s.data[1].features,
                            LAMBDA f : filterCallback(f.properties, s, viewerNormalize(s.search)))])))

\* applyFilters from the selection check on.
applyFiltersTail(s) ==
    syncDetailCard(renderList(updateSourceData(
      IF someHasId(s.filteredFeatures, s.selectedId) THEN s
      ELSE [s EXCEPT !.selectedId = Null])))

\* applyFilters with the usage filter left out of the callback.
applyFiltersAnyUsage(s) ==
    applyFiltersTail(
      [s EXCEPT !.filteredFeatures =
                  SelectSeq(s.data[1].features,
                            LAMBDA f : filterCallbackAnyUsage(f.properties, s,
                                                              viewerNormalize(s.search)))])

applyFilters(s) ==
    applyFiltersTail(
      [s EXCEPT !.filteredFeatures =
                  SelectSeq(s.data[1].features,
                            LAMBDA f : filterCallback(f.properties, s, viewerNormalize(s.search)))])

\* The listeners bindLayerInteractions registers with map.on(type, layerId, ...).
LayerRegistrations ==
    << <<"click", "clusters">>, <<"click", "points">>,
       <<"mouseenter", "clusters">>, <<"mouseleave", "clusters">>,
       <<"mouseenter", "points">>, <<"mouseleave", "points">> >>

\* bindLayerInteractions without the __heritageBound guard.
bindLayerInteractionsUnguarded(s) ==
    [s EXCEPT !.heritageBound = TRUE, !.layerHandlers = @ \o LayerRegistrations]

bindLayerInteractions(s) ==
    IF s.heritageBound THEN s
    ELSE [s EXCEPT !.heritageBound = TRUE, !.layerHandlers = @ \o LayerRegistrations]

\* addDataLayers: the source and the layers are added where the style has
\* none; 'selected-point' starts with the filter id == ''.
addDataLayers(s) ==
    updateSelectedLayer(bindLayerInteractions(
      IF s.sourceData = Null
        THEN [s EXCEPT !.sourceData = <<currentCollection(s)>>, !.selectedPointFilter = <<"">>]
      ELSE s))

selectFeatureById(s, id) == syncDetailCard(renderList([s EXCEPT !.selectedId = <<id>>]))

setView(s, v) ==
    syncDetailCard([s EXCEPT !.view = v,
                             !.detailCard.hidden = (v # "map" \/ ~Truthy(s.selectedId)),
                             !.styleToggleDisabled = (v # "map")])

\* styleOrder[(styleOrder.indexOf(key) + 1) % styleOrder.length]
nextStyle(key) ==
    styleOrder[((CHOOSE i \in 1..Len(styleOrder) : styleOrder[i] = key) % Len(styleOrder)) + 1]

\* The style toggle's click listener: setStyle drops the sources and layers
\* of the style in use.
toggleStyle(s) ==
    [s EXCEPT !.styleKey = nextStyle(s.styleKey),
              !.sourceData = Null,
              !.selectedPointFilter = Null,
              !.styleLoadOnce = @ + 1]

\* One callback registered with map.once('style.load', ...).
onStyleLoad(s) == updateSelectedLayer(updateSourceData(addDataLayers(s)))

\* 'style.load': every pending callback runs, once.
RECURSIVE runStyleLoad(_, _)
runStyleLoad(s, n) == IF n = 0 THEN s ELSE runStyleLoad(onStyleLoad(s), n - 1)

\* The listener of map.on('load', ...).
onLoad(s, defaultView) ==
    setView(applyFilters(addDataLayers([s EXCEPT !.mapLoaded = TRUE])), defaultView)

\* The viewer's state as one record, and its assignment.
Viewer ==
    [data |-> data, filteredFeatures |-> filteredFeatures, selectedId |-> selectedId,
     search |-> search, usage |-> usage, zoning |-> zoning, heritageGrade |-> heritageGrade,
     styleKey |-> styleKey, view |-> view, heritageBound |-> heritageBound,
     layerHandlers |-> layerHandlers, styleLoadOnce |-> styleLoadOnce,
     mapLoaded |-> mapLoaded, sourceData |-> sourceData,
     selectedPointFilter |-> selectedPointFilter, siteList |-> siteList,
     detailCard |-> detailCard, styleToggleDisabled |-> styleToggleDisabled]

Becomes(s) ==
    /\ data' = s.data
    /\ filteredFeatures' = s.filteredFeatures
    /\ selectedId' = s.selectedId
    /\ search' = s.search
    /\ usage' = s.usage
    /\ zoning' = s.zoning
    /\ heritageGrade' = s.heritageGrade
    /\ styleKey' = s.styleKey
    /\ view' = s.view
    /\ heritageBound' = s.heritageBound
    /\ layerHandlers' = s.layerHandlers
    /\ styleLoadOnce' = s.styleLoadOnce
    /\ mapLoaded' = s.mapLoaded
    /\ sourceData' = s.sourceData
    /\ selectedPointFilter' = s.selectedPointFilter
    /\ siteList' = s.siteList
    /\ detailCard' = s.detailCard
    /\ styleToggleDisabled' = s.styleToggleDisabled
    /\ UNCHANGED <<fnVars, pipeVars>>

\* Snapshots the viewer loads.
MaxPendingStyleLoads == 2

ViewerFeature(id, name, address, significance, owner, usageV, zoningV, grade) ==
    [properties |-> [id |-> id, name |-> name, address |-> address,
                     significance |-> significance, owner |-> owner, usage |-> usageV,
                     zoning |-> zoningV, heritageCityGrade |-> grade]]

SiteA == ViewerFeature("7", <<"O", "l", "d", " ", "H", "a", "l", "l">>, <<"5", " ", "M", "a", "i", "n", " ", "R", "d">>, <<>>, <<"C", "i", "t", "y">>, <<"R", "e", "t", "a", "i", "l">>, <<"M", "U", "2">>, <<"I", "I">>)
SiteB == ViewerFeature("row-2", <<"L", "o", "n", "g", " ", "S", "t", " ", "H", "a", "l", "l">>, <<"1", "2", "1", " ", "L", "o", "n", "g", " ", "S", "t">>, <<"O", "l", "d">>, <<>>, <<"O", "f", "f", "i", "c", "e">>, <<"M", "U", "2">>, <<>>)
SiteC == ViewerFeature("9", <<>>, <<"9", " ", "L", "o", "o", "p", " ", "S", "t">>, <<>>, <<"C", "i", "t", "y">>, <<"R", "e", "t", "a", "i", "l">>, <<"G", "B", "1">>, <<"I", "I">>)

Snapshots ==
    { [features |-> fs] : fs \in { <<>>, <<SiteA, SiteB, SiteC>>, <<SiteC, SiteA>> } }

\* What the user may type into the search box.
SearchTexts == { <<>>, <<"H", "A", "L", "L">>, <<"l", " ", "m", "u">>, <<"z", "z">> }

\* getUniqueValues(key): the trimmed non-empty values of the property; the
\* options of a filter are 'all' and these.
getUniqueValues(d, key) ==
    { trim(d.features[k].properties[key]) : k \in 1..Len(d.features) } \ { <<>> }

FilterOptions(d, key) == {ALL} \cup getUniqueValues(d, key)

\* The page once init() has loaded the data, filled the filters and wired
\* the inputs; the map has not fired 'load' yet.
ViewerInit ==
    /\ data \in { <<d>> : d \in Snapshots }
    /\ filteredFeatures = <<>>
    /\ selectedId = Null
    /\ search = <<>>
    /\ usage = ALL
    /\ zoning = ALL
    /\ heritageGrade = ALL
    /\ styleKey = "light"
    /\ view = "trends"
    /\ heritageBound = FALSE
    /\ layerHandlers = <<>>
    /\ styleLoadOnce = 0
    /\ mapLoaded = FALSE
    /\ sourceData = Null
    /\ selectedPointFilter = Null
    /\ siteList = <<>>
    /\ detailCard = [hidden |-> TRUE, innerHTML |-> Null]
    /\ styleToggleDisabled = FALSE
    /\ PipeIdle
    /\ FnIdle

\* searchInput 'input'
SearchInput == \E text \in SearchTexts : Becomes(applyFilters([Viewer EXCEPT !.search = text]))

\* usageFilter 'change'
UsageChange ==
    \E v \in FilterOptions(data[1], "usage") : Becomes(applyFilters([Viewer EXCEPT !.usage = v]))

\* zoningFilter 'change'
ZoningChange ==
    \E v \in FilterOptions(data[1], "zoning") : Becomes(applyFilters([Viewer EXCEPT !.zoning = v]))

\* heritageGradeFilter 'change'
HeritageGradeChange ==
    \E v \in FilterOptions(data[1], "heritageCityGrade") :
      Becomes(applyFilters([Viewer EXCEPT !.heritageGrade = v]))

\* siteList 'click' on the button of an item: its data-id.
SiteListClick ==
    \E k \in 1..Len(siteList) : Becomes(selectFeatureById(Viewer, siteList[k].id))

\* 'click' on layer 'points': a feature drawn from the source's data.
PointClick ==
    /\ <<"click", "points">> \in Range(layerHandlers)
    /\ sourceData # Null
    /\ \E k \in 1..Len(sourceData[1]) :
         Becomes(selectFeatureById(Viewer, sourceData[1][k].properties.id))

\* styleToggle 'click'
StyleToggleClick ==
    /\ ~styleToggleDisabled
    /\ styleLoadOnce < MaxPendingStyleLoads
    /\ Becomes(toggleStyle(Viewer))

\* The map's 'style.load' after a setStyle.
StyleLoad ==
    /\ styleLoadOnce > 0
    /\ Becomes(runStyleLoad([Viewer EXCEPT !.styleLoadOnce = 0], styleLoadOnce))

\* The map's 'load'; the default view depends on the window's width.
MapLoad ==
    /\ ~mapLoaded
    /\ \E defaultView \in {"trends", "map"} : Becomes(onLoad(Viewer, defaultView))

\* viewSwitch 'click' on a button with data-view.
ViewSwitchClick == \E v \in {"trends", "map"} : Becomes(setView(Viewer, v))

ViewerNext ==
    \/ SearchInput
    \/ UsageChange
    \/ ZoningChange
    \/ HeritageGradeChange
    \/ SiteListClick
    \/ PointClick
    \/ StyleToggleClick
    \/ StyleLoad
    \/ MapLoad
    \/ ViewSwitchClick

ViewerSpec == ViewerInit /\ [][ViewerNext]_vars

(***************************************************************************)
(* Properties of the row loop and the snapshot.                            *)
(***************************************************************************)
\* The loop has started (and possibly finished).
InLoop == pc \in {"loop", "done"}

\* The loop has handled a row: scanLog holds the record of the latest one.
RowHandled == pc = "loop" /\ scanLog # Null

\* The latest row handled, its parsed cell and, when the cell parsed, its
\* projected point and the feature it produced (the last one pushed).
LastRow == rows[scanLog[1].row]

LastCoords == parseGps(LastRow.gps)

LastPoint == projectLonLatTo3857(LastCoords)

LastProps == features[Len(features)].properties

\* parseGps of the CMA_GPS cell of each row handled so far, in row order.
ParsedSoFar == [k \in 1..rowIndex |-> parseGps(rows[k].gps)]

\* The index entries one of whose polygons contains the point.
Containing(point) == { c \in 1..Len(cbdIndex) : candidateContains(cbdIndex[c], point) }

\* The largest matchScore of a row over the whole index (0 for an empty index).
BestScore(row) ==
    SetMax({0} \cup { matchScore(asText(row.address), asText(row.name), cbdIndex[c])
                      : c \in 1..Len(cbdIndex) })

\* The parsed cells of ParsedSoFar account for features and skipped.
Accounted(parsed) ==
    /\ skipped = Cardinality({ k \in 1..rowIndex : parsed[k] = Null })
    /\ [j \in 1..Len(features) |-> features[j].geometry.coordinates]
         = SelectSeq(parsed, LAMBDA c : c # Null)

\* C1: every row handled so far either parsed and gave exactly one feature
\* with Point geometry holding the parsed pair, or did not parse, gave no
\* feature and added one to skipped; so features.length + skipped is the
\* number of rows handled, and in the snapshot features.length + skippedRows
\* = totalRows = the number of rows of the sheet.
C1_RowAccounting ==
    InLoop =>
      /\ Len(features) + skipped = rowIndex
      /\ pc = "loop" => Accounted(ParsedSoFar)
      /\ \A j \in 1..Len(features) :
           /\ features[j].geometry.type = "Point"
           /\ Len(features[j].geometry.coordinates) = 2
      /\ pc = "done" =>
           /\ rowIndex = Len(rows)
           /\ outputFile[1].totalRows = Len(workbookFile.rows)
           /\ outputFile[1].skippedRows = skipped
           /\ outputFile[1].features = features
           /\ Len(outputFile[1].features) + outputFile[1].skippedRows
                = outputFile[1].totalRows

C1_Witness ==
    /\ pc = "done"
    /\ outputFile[1].totalRows = 2
    /\ outputFile[1].skippedRows = 1
    /\ Len(outputFile[1].features) = 1

\* The sheet of claim C2: two rows, one cell unparseable, the other parsing to
\* a point inside a polygon of some index entry.
C2_Scenario ==
    /\ pc = "done"
    /\ Len(rows) = 2
    /\ \E bad, good \in 1..2 :
         /\ parseGps(rows[bad].gps) = Null
         /\ parseGps(rows[good].gps) # Null
         /\ Containing(projectLonLatTo3857(parseGps(rows[good].gps))) # {}

FirstWins(inside) ==
    inside # {} =>
      /\ LastProps.heritage = <<cbdIndex[SetMin(inside)].properties>>
      /\ LastProps.heritageMatchScore = <<100>>
      /\ LastProps.heritageMatchConfidence = "high"
      /\ scanLog[1].candidate = SetMin(inside)
      /\ \A e \in Range(scanLog[1].log) : e[2] <= SetMin(inside)

\* C3: a feature carries at most one attribute bag; when index entries
\* contain the row's projected point the bag is that of the first of them in
\* index order, with score 100 and confidence "high", and the iteration
\* evaluated no entry after it.
C3_FirstContainingWins ==
    /\ InLoop => \A j \in 1..Len(features) : Len(features[j].properties.heritage) <= 1
    /\ (RowHandled /\ LastCoords # Null) => FirstWins(Containing(LastPoint))

C3_Witness ==
    /\ RowHandled
    /\ LastCoords # Null
    /\ Cardinality(Containing(LastPoint)) = 2
    /\ scanLog[1].candidate = 1
    /\ LastProps.heritage = <<cbdIndex[1].properties>>

Methods == {"spatial-3857", "address-fuzzy", "address-fuzzy-low", "null"}

\* The tier of the latest feature agrees with whether an entry contains its point.
TierOf(props, inside) ==
    /\ props.heritageMatchMethod \in Methods
    /\ inside => props.heritageMatchMethod = "spatial-3857"
    /\ props.heritageMatchMethod \in {"address-fuzzy", "address-fuzzy-low"} => ~inside
    /\ props.heritageMatchMethod = "spatial-3857" <=> props.heritageMatchConfidence = "high"
    /\ props.heritageMatchMethod = "address-fuzzy" <=> props.heritageMatchConfidence = "medium"
    /\ props.heritageMatchMethod = "address-fuzzy-low" <=> props.heritageMatchConfidence = "low"
    /\ props.heritageMatchMethod = "null" <=> props.heritageMatchConfidence = "null"

\* C4: every feature carries exactly one of the four outcomes; it is the
\* spatial one whenever an index entry contains the point, whatever the fuzzy
\* scores, and a fuzzy one only when no entry contains the point.
C4_TierPriority ==
    (RowHandled /\ LastCoords # Null) => TierOf(LastProps, Containing(LastPoint) # {})

\* A feature matched spatially although an index entry scores 8 or more.
C4_Witness ==
    /\ RowHandled
    /\ LastCoords # Null
    /\ LastProps.heritageMatchMethod = "spatial-3857"
    /\ BestScore(LastRow) >= ADDRESS_MATCH_THRESHOLD

\* The fuzzy outcome of the latest feature for the best score of its row.
FuzzyOutcome(props, best) ==
    /\ best >= 8 =>
         /\ props.heritageMatchMethod = "address-fuzzy"
         /\ props.heritageMatchConfidence = "medium"
         /\ props.heritageMatchScore = <<best>>
    /\ (best >= 6 /\ best < 8) =>
         /\ props.heritageMatchMethod = "address-fuzzy-low"
         /\ props.heritageMatchConfidence = "low"
         /\ props.heritageMatchScore = <<best>>
    /\ best < 6 =>
         /\ props.heritageMatchMethod = "null"
         /\ props.heritageMatchScore = Null
         /\ props.heritage = Null
         /\ ~props.hasCBDHeritageMatch

\* C5: when no index entry contains the point, with best the largest
\* matchScore over the whole index: best >= 8 gives "address-fuzzy", "medium",
\* score best; 6 <= best < 8 gives "address-fuzzy-low", "low", score best;
\* best < 6 gives no match; and the fuzzy loop scored every index entry.
C5_FuzzyTiers ==
    (RowHandled /\ LastCoords # Null /\ Containing(LastPoint) = {}) =>
      /\ FuzzyOutcome(LastProps, BestScore(LastRow))
      /\ \A c \in 1..Len(cbdIndex) : <<"score", c>> \in Range(scanLog[1].log)

\* A run that produced both fuzzy tiers, the low one from an entry whose
\* bounding box does not contain the point.
C5_Witness ==
    /\ RowHandled
    /\ Len(features) = 2
    /\ features[1].properties.heritageMatchMethod = "address-fuzzy"
    /\ features[2].properties.heritageMatchMethod = "address-fuzzy-low"
    /\ \A c \in 1..Len(cbdIndex) : ~pointInBBox(LastPoint, cbdIndex[c].bbox)

\* A feature that carries no match.
Unmatched(props) ==
    /\ props.hasCBDHeritageMatch = FALSE
    /\ props.heritageMatchMethod = "null"
    /\ props.heritageMatchScore = Null
    /\ props.heritageMatchConfidence = "null"
    /\ props.heritage = Null

\* The run without the polygon file: an empty index, every parseable row
\* emitted unmatched, and the snapshot saying so.
UnenrichedRun ==
    /\ cbdIndex = <<>>
    /\ pc # "aborted" \/ ~workbookFile.exists
    /\ matchedCBD = 0
    /\ \A j \in 1..Len(features) : Unmatched(features[j].properties)
    /\ pc = "loop" =>
         Len(features) = Cardinality({ k \in 1..rowIndex : parseGps(rows[k].gps) # Null })
    /\ pc = "done" =>
         /\ outputFile[1].sourceCBDGeoJSON = "null"
         /\ outputFile[1].matchedCBDHeritageRows = 0
         /\ outputFile[1].features = features
         /\ outputFile[1].totalRows = Len(workbookFile.rows)

\* C11: when the polygon file is absent the index is empty, every parseable
\* row is emitted with no match, and the run (the workbook being there) goes
\* on to write a snapshot with matchedCBDHeritageRows = 0 and
\* sourceCBDGeoJSON = null.
C11_MissingPolygonFile ==
    /\ [](~cbdFile.exists => UnenrichedRun)
    /\ (workbookFile.exists /\ ~cbdFile.exists) ~> (pc = "done" /\ outputFile # Null)

\* A snapshot written without the polygon file: a feature and a skipped row.
C11_Witness ==
    /\ ~cbdFile.exists
    /\ pc = "done"
    /\ Len(outputFile[1].features) >= 1
    /\ outputFile[1].skippedRows >= 1
    /\ Unmatched(outputFile[1].features[1].properties)

\* Nothing of the script after the workbook check has run.
NothingRun ==
    /\ pc \in {"start", "aborted"}
    /\ cbdIndex = <<>>
    /\ rows = <<>>
    /\ rowIndex = 0
    /\ features = <<>>
    /\ scanLog = Null
    /\ outputFile = Null

\* C12: when the workbook file does not exist the run aborts, before the
\* index is loaded and before any row is processed, and the snapshot file is
\* never written.
C12_MissingWorkbookAborts ==
    /\ [](~workbookFile.exists => NothingRun)
    /\ (~workbookFile.exists) ~> (pc = "aborted")
    /\ [](pc = "aborted" => ~workbookFile.exists)

\* The aborted run, a polygon file with features lying unread.
C12_Witness ==
    /\ pc = "aborted"
    /\ ~workbookFile.exists
    /\ cbdFile.exists
    /\ Len(cbdFile.features) >= 1
    /\ outputFile = Null

\* The three provenance fields of a feature are null / non-null together
\* with the flag and the attribute bag.
FlagAgrees(props) ==
    /\ props.hasCBDHeritageMatch \in BOOLEAN
    /\ props.hasCBDHeritageMatch <=> props.heritageMatchMethod # "null"
    /\ props.hasCBDHeritageMatch <=> props.heritageMatchScore # Null
    /\ props.hasCBDHeritageMatch <=> props.heritageMatchConfidence # "null"
    /\ props.hasCBDHeritageMatch <=> props.heritage # Null

\* The last feature pushed is the one of the latest row.
LastRowEmitted ==
    /\ Len(features) >= 1
    /\ scanLog[1].coords # Null
    /\ features[Len(features)].geometry.coordinates = LastCoords
    /\ LastProps.cmaGps = asText(LastRow.gps)
    /\ LastProps.address = asText(LastRow.address)
    /\ LastProps.name = asText(LastRow.name)

\* C13: a row with parseable GPS that no index entry contains and whose best
\* fuzzy score is below 6 is still emitted as a feature, with the flag false,
\* method, score and confidence null and no heritage attributes; and on every
\* feature the flag is true exactly when the three provenance fields are
\* non-null.
C13_UnmatchedStillEmitted ==
    /\ InLoop => \A j \in 1..Len(features) : FlagAgrees(features[j].properties)
    /\ (RowHandled /\ LastCoords # Null /\ Containing(LastPoint) = {}
        /\ BestScore(LastRow) < ADDRESS_MATCH_LOW_THRESHOLD) =>
         /\ LastRowEmitted
         /\ Unmatched(LastProps)

\* A row scoring 1 to 5 against the index, outside every polygon: emitted unmatched.
C13_Witness ==
    /\ RowHandled
    /\ LastCoords # Null
    /\ cbdIndex # <<>>
    /\ Containing(LastPoint) = {}
    /\ BestScore(LastRow) \in 1..5
    /\ LastRowEmitted
    /\ Unmatched(LastProps)

\* A snapshot with its timestamp blanked.
SansTimestamp(snapshot) == [snapshot EXCEPT !.generatedAt = 0]

RowDashK(k) == <<"r", "o", "w", "-", <<"1", "2", "3", "4", "5", "6", "7", "8", "9">>[k]>>

\* The id claim C15 gives the feature at position k made from the row.
ClaimedId(row, k) == IF trim(row.id) # <<>> THEN trim(row.id) ELSE RowDashK(k)

\* C15: every emitted feature has a non-empty properties.id: the trimmed '#'
\* cell when that is non-empty, otherwise "row-k" with k the feature's 1-based
\* position among the features (not the row's number in the sheet).
C15_FeatureId ==
    /\ InLoop => \A j \in 1..Len(features) :
         /\ features[j].properties.id # <<>>
         /\ \/ features[j].properties.id = RowDashK(j)
            \/ \E k \in 1..rowIndex : /\ trim(rows[k].id) # <<>>
                                      /\ features[j].properties.id = trim(rows[k].id)
    /\ (RowHandled /\ LastCoords # Null) =>
         LastProps.id = ClaimedId(LastRow, Len(features))

\* The second row of the sheet, its '#' cell blank, becomes the first
\* feature: "row-1".
C15_Witness ==
    /\ RowHandled
    /\ scanLog[1].row = 2
    /\ skipped = 1
    /\ Len(features) = 1
    /\ trim(LastRow.id) = <<>>
    /\ LastRow.id # <<>>
    /\ LastProps.id = <<"r", "o", "w", "-", "1">>

\* In the record of a spatial scan every containment test comes right after
\* the bounding-box check of the same candidate, and that box holds the point.
BoxBeforeContains(log, point) ==
    \A i \in 1..Len(log) :
      log[i][1] = "contains" =>
        /\ i > 1
        /\ log[i - 1] = <<"bbox", log[i][2]>>
        /\ pointInBBox(point, cbdIndex[log[i][2]].bbox)

\* C18: in the spatial scan the bounding-box check precedes the containment
\* test, and polygonContainsPoint is never evaluated for a candidate whose
\* bounding box does not contain the projected point.
C18_BoxCheckFirst ==
    (RowHandled /\ LastCoords # Null) =>
      /\ BoxBeforeContains(scanLog[1].log, LastPoint)
      /\ \A k \in 1..Len(cbdIndex) :
           ~pointInBBox(LastPoint, cbdIndex[k].bbox) => <<"contains", k>> \notin Range(scanLog[1].log)

\* The first candidate's box excludes the point and it is not tested; the
\* second one's box holds the point and it is tested.
C18_Witness ==
    /\ RowHandled
    /\ LastCoords # Null
    /\ Len(cbdIndex) = 2
    /\ ~pointInBBox(LastPoint, cbdIndex[1].bbox)
    /\ <<"bbox", 1>> \in Range(scanLog[1].log)
    /\ <<"contains", 1>> \notin Range(scanLog[1].log)
    /\ <<"contains", 2>> \in Range(scanLog[1].log)

\* How many of the features carry the match flag.
FlaggedCount(fs) == Cardinality({ k \in 1..Len(fs) : fs[k].properties.hasCBDHeritageMatch })

\* C25: after every loop iteration matchedCBD <= features.length <= the
\* number of rows handled, and matchedCBD is the number of features whose
\* hasCBDHeritageMatch is true (a skipped row adds nothing to it); at the end
\* matchedCBDHeritageRows equals that number over the emitted features.
C25_MatchedCount ==
    InLoop =>
      /\ matchedCBD <= Len(features)
      /\ Len(features) <= rowIndex
      /\ matchedCBD = FlaggedCount(features)
      /\ pc = "done" =>
           outputFile[1].matchedCBDHeritageRows = FlaggedCount(outputFile[1].features)

\* A finished run with a skipped row, a matched and an unmatched feature.
C25_Witness ==
    /\ pc = "done"
    /\ skipped = 1
    /\ Len(outputFile[1].features) = 2
    /\ outputFile[1].matchedCBDHeritageRows = 1
    /\ outputFile[1].features[1].properties.hasCBDHeritageMatch
    /\ ~outputFile[1].features[2].properties.hasCBDHeritageMatch

\* The columns of a row as makeFeature copies them.
SourceOfRow(row) ==
    [cmaGps |-> asText(row.gps), address |-> asText(row.address), name |-> asText(row.name)]

\* The same columns read back from a feature.
SourceOfFeature(feature) ==
    [cmaGps |-> feature.properties.cmaGps, address |-> feature.properties.address,
     name |-> feature.properties.name]

\* The rows handled so far that parse, in sheet order.
EmittedRows == SelectSeq(SubSeq(rows, 1, rowIndex), LAMBDA row : parseGps(row.gps) # Null)

\* The features are those of the parsing rows, in the order of the rows.
InRowOrder ==
    InLoop =>
      [j \in 1..Len(features) |-> SourceOfFeature(features[j])]
        = [j \in 1..Len(EmittedRows) |-> SourceOfRow(EmittedRows[j])]

\* An iteration leaves the features already emitted where they are.
KeepsEarlier ==
    (pc = "loop" /\ pc' = "loop") =>
      /\ Len(features') >= Len(features)
      /\ SubSeq(features', 1, Len(features)) = features

\* C26: the emitted features are in the relative order of their source rows:
\* of two features the one from the earlier row comes first, and a dropped
\* row does not reorder the others.
C26_RowOrderKept == []InRowOrder /\ [][KeepsEarlier]_vars

\* The snapshot of the three-row sheet whose second row is dropped.
C26_Witness ==
    /\ pc = "done"
    /\ rows = GappedSheet
    /\ skipped = 1
    /\ Len(outputFile[1].features) = 2
    /\ SourceOfFeature(outputFile[1].features[1]) = SourceOfRow(rows[1])
    /\ SourceOfFeature(outputFile[1].features[2]) = SourceOfRow(rows[3])

(***************************************************************************)
(* Properties of the viewer.                                               *)
(***************************************************************************)
\* Each listener of bindLayerInteractions is registered, once.
RegisteredOnce ==
    /\ layerHandlers = LayerRegistrations
    /\ \A r \in Range(LayerRegistrations) :
         Cardinality({ k \in 1..Len(layerHandlers) : layerHandlers[k] = r }) = 1

\* Nothing is registered before the first addDataLayers, everything once
\* from then on.
BoundOnce ==
    /\ ~heritageBound => layerHandlers = <<>>
    /\ heritageBound => RegisteredOnce
    /\ (mapLoaded \/ sourceData # Null) => heritageBound

\* Once the listeners are registered no handler registers any other.
LaterCallsNoOp == layerHandlers # <<>> => layerHandlers' = layerHandlers

\* C23: across the map's load and every style.load after a style toggle,
\* the layer click / mouseenter / mouseleave listeners are registered
\* exactly once: bindLayerInteractions registers them on its first call and
\* does nothing on a later one.
C23_BoundOncePerSession == []BoundOnce /\ [][LaterCallsNoOp]_vars

\* The map has loaded and a toggled style has loaded too: addDataLayers has
\* run for both.
C23_Witness ==
    /\ mapLoaded
    /\ styleKey = "dark"
    /\ styleLoadOnce = 0
    /\ sourceData # Null
    /\ RegisteredOnce

\* The ids of the features shown.
VisibleIds == { filteredFeatures[k].properties.id : k \in 1..Len(filteredFeatures) }

\* C28: once a handler has finished, state.selectedId is null or, as a
\* string, the id of a feature in state.filteredFeatures.
C28_SelectionVisible == selectedId = Null \/ selectedId[1] \in VisibleIds

\* A site stays selected while search and usage filter narrow the list to it.
C28_Witness ==
    /\ selectedId = <<"7">>
    /\ usage # ALL
    /\ search # <<>>
    /\ Len(data[1].features) = 3
    /\ VisibleIds = {"7"}

\* The feature the selection identifies among those shown: Null or <<properties>>.
SelectedShown ==
    IF selectedId = Null \/ selectedId[1] \notin VisibleIds THEN Null
    ELSE <<filteredFeatures[CHOOSE k \in 1..Len(filteredFeatures) :
                              /\ filteredFeatures[k].properties.id = selectedId[1]
                              /\ \A j \in 1..(k - 1) :
                                   filteredFeatures[j].properties.id # selectedId[1]].properties>>

\* C29: after every handler the detail card is visible exactly when
\* state.view is 'map' and state.selectedId identifies a feature in
\* state.filteredFeatures (it then shows that feature); otherwise it is
\* hidden and empty.
C29_DetailCardSynced ==
    IF view = "map" /\ SelectedShown # Null
      THEN detailCard = [hidden |-> FALSE, innerHTML |-> SelectedShown]
    ELSE detailCard = [hidden |-> TRUE, innerHTML |-> Null]

\* In the trends view with a visible site selected: the card is hidden.
C29_Witness ==
    /\ view = "trends"
    /\ mapLoaded
    /\ selectedId = <<"row-2">>
    /\ "row-2" \in VisibleIds
    /\ detailCard.hidden
    /\ detailCard.innerHTML = Null

\* The lower-cased text claim C30 searches in.
LoweredText(p) ==
    join([k \in 1..6 |-> toLowerCase(<<p.name, p.address, p.significance, p.owner,
                                       p.usage, p.zoning>>[k])],
         <<" ">>)

\* The condition claim C30 gives for a feature to be shown under the
\* filters f = [search, usage, zoning, heritageGrade].
ClaimedShown(p, f) ==
    /\ f.usage = ALL \/ p.usage = f.usage
    /\ f.zoning = ALL \/ p.zoning = f.zoning
    /\ f.heritageGrade = ALL \/ p.heritageCityGrade = f.heritageGrade
    /\ includes(LoweredText(p), toLowerCase(f.search))

\* shown is what claim C30 gives for the features all under the filters f.
ShownAsClaimed(all, shown, f) ==
    /\ shown = SelectSeq(all, LAMBDA feature : ClaimedShown(feature.properties, f))
    /\ (f.usage = ALL /\ f.zoning = ALL /\ f.heritageGrade = ALL /\ f.search = <<>>)
         => shown = all

Filters ==
    [search |-> search, usage |-> usage, zoning |-> zoning, heritageGrade |-> heritageGrade]

FilteredAsClaimed == ShownAsClaimed(data[1].features, filteredFeatures, Filters)

\* A step that changes a filter, the search text or the features shown has
\* run applyFilters.
FiltersApplied ==
    <<search, usage, zoning, heritageGrade, filteredFeatures>>'
      # <<search, usage, zoning, heritageGrade, filteredFeatures>>

\* C30: after applyFilters state.filteredFeatures is the sub-sequence of
\* state.data.features, in order, of the features whose usage, zoning and
\* heritageCityGrade equal the selected value or whose filter is 'all' and
\* whose lower-cased name, address, significance, owner, usage and zoning
\* joined by spaces contain the lower-cased search text; with every filter
\* 'all' and no search text it is state.data.features, which is never
\* modified.
C30_FilteredSubsequence ==
    /\ [](mapLoaded => FilteredAsClaimed)
    /\ [][FiltersApplied =>
            ShownAsClaimed(data[1].features, filteredFeatures',
                           [search |-> search', usage |-> usage', zoning |-> zoning',
                            heritageGrade |-> heritageGrade'])]_vars
    /\ [][data' = data]_vars

\* Usage 'Retail' and the search text "HALL" leave one of three features;
\* usage alone would leave two.
C30_Witness ==
    /\ mapLoaded
    /\ Len(data[1].features) = 3
    /\ usage = <<"R", "e", "t", "a", "i", "l">>
    /\ search = <<"H", "A", "L", "L">>
    /\ Len(filteredFeatures) = 1
    /\ filteredFeatures[1] = data[1].features[1]

(***************************************************************************)
(* Claims about the functions, checked under FnSpec.                       *)
(***************************************************************************)
Called(fn) == fnCall # Null /\ fnCall.fn = fn /\ fnRet # Pending

\* p lies strictly inside the lattice rectangle ring (built by Rect).
StrictlyInside(ring, p) ==
    /\ ring \in GridRects
    /\ ring[1][1] < p[1] /\ p[1] < ring[3][1]
    /\ ring[1][2] < p[2] /\ p[2] < ring[3][2]

\* The rule of claim C6 for a ring list and a point.
ExteriorAndNoHole(rings, p) ==
    /\ Len(rings) >= 1
    /\ ringContainsPoint(rings[1], p)
    /\ \A i \in 2..Len(rings) : ~ringContainsPoint(rings[i], p)

\* C6: polygonContainsPoint(rings, p) is true exactly when the first ring
\* contains p and no later ring does; a point strictly inside a rectangular
\* exterior with no hole around it is contained, a point strictly inside a
\* rectangular hole is not, and the empty ring list contains nothing.
C6_HolesExcluded ==
    Called("polygonContainsPoint") =>
      /\ fnRet[1] = ExteriorAndNoHole(fnCall.rings, fnCall.point)
      /\ fnCall.rings = <<>> => fnRet[1] = FALSE
      /\ (Len(fnCall.rings) = 1 /\ StrictlyInside(fnCall.rings[1], fnCall.point))
           => fnRet[1] = TRUE
      /\ (\E i \in 2..Len(fnCall.rings) : StrictlyInside(fnCall.rings[i], fnCall.point))
           => fnRet[1] = FALSE

\* A point strictly inside the exterior square and strictly inside a hole.
C6_Witness ==
    /\ Called("polygonContainsPoint")
    /\ Len(fnCall.rings) >= 2
    /\ StrictlyInside(fnCall.rings[1], fnCall.point)
    /\ \E i \in 2..Len(fnCall.rings) : StrictlyInside(fnCall.rings[i], fnCall.point)
    /\ fnRet[1] = FALSE

\* C7: when some polygon of an index entry contains the point, the point is
\* in the entry's bounding box, which is computeBBox of its polygons, so the
\* spatial loop does not skip the entry: it tests it and takes it.
C7_BBoxNoFalseNegative ==
    Called("spatialScan") =>
      /\ fnCall.candidate.bbox = computeBBox(fnCall.candidate.polygons)
      /\ candidateContains(fnCall.candidate, fnCall.point) =>
           /\ pointInBBox(fnCall.point, computeBBox(fnCall.candidate.polygons))
           /\ fnRet[1].hit = 1
           /\ fnRet[1].log = << <<"bbox", 1>>, <<"contains", 1>> >>

\* The point is contained through the second polygon of a MultiPolygon only.
C7_Witness ==
    /\ Called("spatialScan")
    /\ Len(fnCall.candidate.polygons) = 2
    /\ ~polygonContainsPoint(fnCall.candidate.polygons[1], fnCall.point)
    /\ polygonContainsPoint(fnCall.candidate.polygons[2], fnCall.point)
    /\ fnRet[1].hit = 1

\* The hemisphere letter a coordinate half ends with, upper-cased ("" if none).
HemisphereOf(seg) ==
    IF seg # <<>> /\ toUpperChar(seg[Len(seg)]) \in {"N", "S", "E", "W"}
      THEN toUpperChar(seg[Len(seg)])
    ELSE ""

\* A "lon, lat" cell whose halves carry hemisphere letters that tell the axes
\* apart, and which parses.
ExplicitLonLat(segs, ret) ==
    /\ Len(segs) = 2
    /\ segs[1] \in Halves /\ segs[2] \in Halves
    /\ HemisphereOf(segs[1]) \in {"E", "W"}
    /\ HemisphereOf(segs[2]) \in {"N", "S"}
    /\ ret # Null

\* C8: a valid "lon, lat" string with explicit hemisphere letters and the
\* string with its halves swapped parse to the same (lon, lat) pair.
C8_OrderIndependent ==
    (Called("parseGps") /\ fnPrev # Null
     /\ ExplicitLonLat(fnPrev[1].call.segments, fnPrev[1].ret))
      => fnRet[1] = fnPrev[1].ret

\* The spec's example: "18.42 E, 33.91 S" then "33.91 S, 18.42 E".
C8_Witness ==
    /\ Called("parseGps")
    /\ fnPrev # Null
    /\ fnPrev[1].call.gpsValue = <<"1", "8", ".", "4", "2", " ", "E", ",", " ", "3", "3", ".", "9", "1", " ", "S">>
    /\ fnPrev[1].ret = <<1842, -3391>>
    /\ fnCall.gpsValue = <<"3", "3", ".", "9", "1", " ", "S", ",", " ", "1", "8", ".", "4", "2", " ", "E">>
    /\ fnRet[1] = <<-3391, 1842>>

\* A segment without any digit.
NonNumeric(seg) == \A k \in 1..Len(seg) : seg[k] \notin Digits

\* The loop iteration for a row holding the cell (no polygon file).
CellOutcome(gpsValue) == rowOutcome(Row(gpsValue, <<>>, <<>>, <<>>), <<>>, 0)

\* C9: a GPS string with only one comma-separated segment, or with a segment
\* that is not numeric, parses to null, and its row is skipped: no feature,
\* one more in skipped.
C9_JunkRejected ==
    (Called("parseGps")
     /\ (Len(fnCall.segments) = 1 \/ \E k \in 1..Len(fnCall.segments) : NonNumeric(fnCall.segments[k])))
      => /\ fnRet[1] = Null
         /\ CellOutcome(fnCall.gpsValue).skip
         /\ CellOutcome(fnCall.gpsValue).feature = Null

\* "18.42, -33.91, abc" parses to (18.42, -33.91) and its row is emitted.
C9_Witness ==
    /\ Called("parseGps")
    /\ fnCall.gpsValue = <<"1", "8", ".", "4", "2", ",", " ", "-", "3", "3", ".", "9", "1", ",", " ", "a", "b", "c">>
    /\ fnRet[1] = <<1842, -3391>>
    /\ ~CellOutcome(fnCall.gpsValue).skip

Indicator(b) == IF b THEN 1 ELSE 0

\* The tokens of the source side and of the candidate side.
SourceTokens(call) == Range(tokens(call.targetAddress)) \cup Range(tokens(call.targetName))

CandidateTokens(candidate) ==
    Range(tokens(candidate.addressNorm)) \cup Range(tokens(candidate.siteNameNorm))

\* The three signals of claim C10, from the call's own arguments.
HouseNumbersAgree(call) ==
    /\ extractHouseNumber(call.targetAddress) # <<>>
    /\ extractHouseNumber(call.targetAddress) = extractHouseNumber(call.candidate.addressNorm)

OneContainsOther(a, b) ==
    /\ a # <<>> /\ b # <<>>
    /\ \/ \E i \in 0..(Len(b) - Len(a)) : \A k \in 1..Len(a) : b[i + k] = a[k]
       \/ \E i \in 0..(Len(a) - Len(b)) : \A k \in 1..Len(b) : a[i + k] = b[k]

ClaimedScore(call) ==
    4 * Indicator(HouseNumbersAgree(call))
    + Cardinality(SourceTokens(call) \cap CandidateTokens(call.candidate))
    + 4 * Indicator(OneContainsOther(normalizeAddress(call.targetAddress),
                                     call.candidate.addressNorm))

\* The spec's example: "121 Long St" against the normalised "121 long street".
LongStreetExample(call) ==
    /\ call.targetAddress = <<"1", "2", "1", " ", "L", "o", "n", "g", " ", "S", "t">>
    /\ call.candidate.addressNorm = <<"1", "2", "1", " ", "l", "o", "n", "g", " ", "s", "t", "r", "e", "e", "t">>

\* C10: matchScore is 4 for equal non-empty house numbers, plus the number of
\* tokens common to the source and the candidate, plus 4 when one normalised
\* address contains the other, the three adding up; "121 Long St" against
\* "121 long street" scores at least 10 and is tiered "address-fuzzy".
C10_ScoreIsSumOfSignals ==
    Called("matchScore") =>
      /\ fnRet[1] = ClaimedScore(fnCall)
      /\ LongStreetExample(fnCall) =>
           /\ fnRet[1] >= 10
           /\ fuzzyTier(fnRet[1], 1).method = "address-fuzzy"

\* The example, all three signals firing: 4 + 3 + 4.
C10_Witness ==
    /\ Called("matchScore")
    /\ LongStreetExample(fnCall)
    /\ fnCall.targetName = <<>>
    /\ HouseNumbersAgree(fnCall)
    /\ fnRet[1] = 11

\* The scores of the call's candidates, in index order.
ScoresOf(call) ==
    [k \in 1..Len(call.index) |->
       matchScore(call.sourceAddress, call.sourceName, call.index[k])]

\* The fuzzy loop's result for these scores: nothing when no score is above
\* 0, otherwise the first candidate holding the largest score.
FirstOfBest(best, scores) ==
    IF \A k \in 1..Len(scores) : scores[k] = 0
      THEN best = [bestScore |-> 0, bestCandidate |-> 0]
    ELSE /\ best.bestCandidate \in 1..Len(scores)
         /\ best.bestScore = scores[best.bestCandidate]
         /\ best.bestScore > 0
         /\ \A k \in 1..Len(scores) : scores[k] <= best.bestScore
         /\ \A k \in 1..(best.bestCandidate - 1) : scores[k] < best.bestScore

\* C16: of several candidates sharing the largest score the fuzzy fallback
\* selects the first in index order, a later one replacing the best only on
\* a strictly greater score; a candidate scoring 0 is never selected; the
\* attached attributes are those of the selected candidate.
C16_FirstBestWins ==
    Called("fuzzyScan") =>
      /\ FirstOfBest(fnRet[1].best, ScoresOf(fnCall))
      /\ fnRet[1].match.candidate \in {0, fnRet[1].best.bestCandidate}
      /\ fnRet[1].match.candidate # 0 =>
           /\ fnRet[1].match.heritageContext = <<fnCall.index[fnRet[1].match.candidate].properties>>
           /\ fnRet[1].match.matchScoreValue = <<fnRet[1].best.bestScore>>
      /\ fnRet[1].match.candidate = 0 <=> fnRet[1].best.bestScore < ADDRESS_MATCH_LOW_THRESHOLD

\* Two different candidates tie on the largest score; the first is attached.
C16_Witness ==
    /\ Called("fuzzyScan")
    /\ Len(fnCall.index) = 2
    /\ fnCall.index[1] # fnCall.index[2]
    /\ ScoresOf(fnCall)[1] = ScoresOf(fnCall)[2]
    /\ ScoresOf(fnCall)[1] >= ADDRESS_MATCH_THRESHOLD
    /\ fnRet[1].best.bestCandidate = 1
    /\ fnRet[1].match.heritageContext = <<fnCall.index[1].properties>>

\* The polygons GeoJSON gives a geometry: its coordinates for a MultiPolygon,
\* the one polygon of a Polygon.
PolygonsOfGeometry(g) ==
    IF g.type = "MultiPolygon" THEN g.coordinates ELSE <<g.coordinates>>

\* C17: a candidate matches a point exactly when at least one of its polygons
\* contains the point, each polygon under its own exterior-minus-holes rule;
\* a point in a hole of one polygon still matches when another polygon of the
\* candidate contains it.
C17_AnyPolygonMatches ==
    Called("spatialScan") =>
      /\ fnCall.candidate.polygons = PolygonsOfGeometry(fnCall.geometry)
      /\ fnRet[1].hit = 1 <=>
           \E k \in 1..Len(fnCall.candidate.polygons) :
             ExteriorAndNoHole(fnCall.candidate.polygons[k], fnCall.point)
      /\ fnRet[1].hit \in {0, 1}

\* The point lies strictly inside the hole of the first polygon and strictly
\* inside the second polygon: the candidate matches.
C17_Witness ==
    /\ Called("spatialScan")
    /\ fnCall.geometry.type = "MultiPolygon"
    /\ Len(fnCall.candidate.polygons) = 2
    /\ StrictlyInside(fnCall.candidate.polygons[1][1], fnCall.point)
    /\ StrictlyInside(fnCall.candidate.polygons[1][2], fnCall.point)
    /\ StrictlyInside(fnCall.candidate.polygons[2][1], fnCall.point)
    /\ fnRet[1].hit = 1

\* The magnitude a numeral of the inputs stands for, in the model's unit.
MagnitudeOf(nm) ==
    (CASE nm = <<"1", "8", ".", "4", "2">> -> 1842
       [] nm = <<"3", "3", ".", "9", "1">> -> 3391
       [] nm = <<"9", "0">> -> 9000
       [] nm = <<"9", "0", ".", "5">> -> 9050
       [] nm = <<"1", "2", "0">> -> 12000
       [] nm = <<"1", "8", "0", ".", "5">> -> 18050
       [] nm = <<"0">> -> 0) * (Scale \div 100)

\* The hemisphere letter of a suffix, upper-cased ("" if the suffix has none).
SuffixLetter(sf) == IF sf = <<>> THEN "" ELSE toUpperChar(sf[Len(sf)])

\* What claim C19 gives for a half: the hemisphere fixes the sign; without
\* one the latitude slot is made non-positive, the longitude slot keeps the
\* numeral's sign.
ClaimedCoord(call) ==
    IF SuffixLetter(call.suffix) \in {"S", "W"} THEN -MagnitudeOf(call.numeral)
    ELSE IF SuffixLetter(call.suffix) \in {"N", "E"} THEN MagnitudeOf(call.numeral)
    ELSE IF call.axis = "lat" THEN -MagnitudeOf(call.numeral)
    ELSE IF call.sign = <<"-">> THEN -MagnitudeOf(call.numeral)
    ELSE MagnitudeOf(call.numeral)

\* C19: with a hemisphere letter after the number parseCoord returns the
\* numeral's magnitude signed by the hemisphere (S/W negative, N/E positive)
\* whatever the numeral's own sign; without one the half in the latitude slot
\* is non-positive and the half in the longitude slot keeps its sign.
C19_HemisphereFixesSign ==
    Called("parseCoord") =>
      /\ fnRet[1] = <<ClaimedCoord(fnCall)>>
      /\ (SuffixLetter(fnCall.suffix) = "" /\ fnCall.axis = "lat") => fnRet[1][1] <= 0

\* "-18.42 E" in either slot is 18.42.
C19_Witness ==
    /\ Called("parseCoord")
    /\ fnCall.sign = <<"-">>
    /\ fnCall.numeral = <<"1", "8", ".", "4", "2">>
    /\ SuffixLetter(fnCall.suffix) = "E"
    /\ fnCall.axis = "lat"
    /\ fnRet[1][1] > 0
    /\ fnRet[1][1] = MagnitudeOf(fnCall.numeral)

\* The segments parseGps keeps: trimmed and not empty.
NonBlank(segments) == SelectSeq(mapTrim(segments), LAMBDA seg : seg # <<>>)

\* The pair claim C20 gives for the two parsed components.
SwapRule(first, second) ==
    IF Abs(first) <= 90 * Scale /\ Abs(second) > 90 * Scale
      THEN <<second, first>>
    ELSE <<first, second>>

\* The pair is a longitude within 180 and a latitude within 90 degrees.
InRange(pair) == Abs(pair[1]) <= 180 * Scale /\ Abs(pair[2]) <= 90 * Scale

\* The result is the pair the swap rule gives, where that pair is in range.
SwappedAsClaimed(first, second, ret) ==
    (first # Null /\ second # Null) =>
      ret = (IF InRange(SwapRule(first[1], second[1]))
               THEN SwapRule(first[1], second[1]) ELSE Null)

\* C20: parseGps swaps the two parsed components exactly when the first's
\* magnitude is at most 90 and the second's is above 90, and otherwise passes
\* them through as (lon, lat); "18.4233, -33.9189" yields (18.4233, -33.9189)
\* (18.42, -33.91 at the precision kept).
C20_SwapRule ==
    Called("parseGps") =>
      /\ Len(NonBlank(fnCall.segments)) >= 2 =>
           SwappedAsClaimed(parseCoord(NonBlank(fnCall.segments)[1], "lon"),
                            parseCoord(NonBlank(fnCall.segments)[2], "lat"),
                            fnRet[1])
      /\ fnCall.segments = ExampleSegments =>
           fnRet[1] = <<(184233 * Scale) \div 10000, -((339189 * Scale) \div 10000)>>

\* A cell written latitude first, "33.91, 120": the components are swapped.
C20_Witness ==
    /\ Called("parseGps")
    /\ Len(fnCall.segments) = 2
    /\ fnRet[1] # Null
    /\ Abs(parseCoord(fnCall.segments[1], "lon")[1]) <= 90 * Scale
    /\ Abs(parseCoord(fnCall.segments[2], "lat")[1]) > 90 * Scale
    /\ fnRet[1] = <<parseCoord(fnCall.segments[2], "lat")[1],
                    parseCoord(fnCall.segments[1], "lon")[1]>>

\* The two halves parse and the pair the swap rule gives is out of range.
FinalOutOfRange(first, second) ==
    first # Null /\ second # Null /\ ~InRange(SwapRule(first[1], second[1]))

\* The reasons claim C21 gives for "no coordinate", over the kept parts.
Rejected(parts) ==
    \/ Len(parts) < 2
    \/ parseCoord(parts[1], "lon") = Null
    \/ parseCoord(parts[2], "lat") = Null
    \/ FinalOutOfRange(parseCoord(parts[1], "lon"), parseCoord(parts[2], "lat"))

\* The row holding the cell is skipped, or emitted with coordinates in range.
EmittedInRange(outcome) ==
    IF outcome.feature = Null THEN outcome.skip
    ELSE InRange(outcome.feature[1].geometry.coordinates)

\* C21: a pair returned by parseGps has |lat| <= 90 and |lon| <= 180;
\* parseGps returns null whenever fewer than two non-empty parts exist, a
\* half fails to parse, or the final latitude exceeds 90 or the final
\* longitude 180 in magnitude; so the feature emitted for the cell has
\* coordinates in that range.
C21_CoordinatesInRange ==
    Called("parseGps") =>
      /\ fnRet[1] # Null => InRange(fnRet[1])
      /\ Rejected(NonBlank(fnCall.segments)) => fnRet[1] = Null
      /\ EmittedInRange(CellOutcome(fnCall.gpsValue))

\* "180.5, -33.91": both halves parse, the longitude is out of range.
C21_Witness ==
    /\ Called("parseGps")
    /\ Len(fnCall.segments) = 2
    /\ parseCoord(fnCall.segments[1], "lon") = <<180 * Scale + Scale \div 2>>
    /\ parseCoord(fnCall.segments[2], "lat") = <<-((3391 * Scale) \div 100)>>
    /\ fnRet[1] = Null
    /\ CellOutcome(fnCall.gpsValue).skip

\* No segment of the cell carries a hemisphere letter.
NoHemisphere(segments) ==
    \A k \in 1..Len(segments) :
      \A j \in 1..Len(segments[k]) : toUpperChar(segments[k][j]) \notin {"N", "S", "E", "W"}

\* C24: whenever parseGps returns a pair for a cell in which neither half
\* carries a hemisphere letter, the returned latitude is <= 0, also when the
\* axis swap fires.
C24_SouthernLatitude ==
    (Called("parseGps") /\ NoHemisphere(fnCall.segments) /\ fnRet[1] # Null)
      => fnRet[1][2] <= 0

\* "33.91, 120": the swap makes the unsigned first half the latitude, 33.91.
C24_Witness ==
    /\ Called("parseGps")
    /\ fnCall.gpsValue = <<"3", "3", ".", "9", "1", ",", " ", "1", "2", "0">>
    /\ NoHemisphere(fnCall.segments)
    /\ fnRet[1] # Null
    /\ fnRet[1][1] = -120 * Scale
    /\ fnRet[1][2] > 0

\* The condition claim C22 gives for a feature to be indexed.
ClaimIndexed(feature) ==
    /\ feature.geometry.type \in {"Polygon", "MultiPolygon"}
    /\ feature.geometry.coordinates # <<>>
    /\ (trim(feature.properties.STR_ADR) # <<>>
        \/ trim(feature.properties.HRTG_INV_SITE_NAME) # <<>>)

\* The inventory keys of a list of features, and of the entries of an index.
FeatureKeys(fs) == [k \in 1..Len(fs) |-> fs[k].properties.SL_HRTG_INV_KEY]
IndexKeys(index) == [k \in 1..Len(index) |-> index[k].properties.heritageInventoryKey[1]]

\* C22: a polygon feature is in the candidate index exactly when it has
\* Polygon or MultiPolygon geometry with a non-empty coordinate list and an
\* address or site name that is not blank; any other feature is never the
\* match of a row, spatially or by fuzzy score.
C22_IndexedExactly ==
    Called("loadCBDIndex") =>
      /\ IndexKeys(fnRet[1].index)
           = FeatureKeys(SelectSeq(fnCall.file.features, ClaimIndexed))
      /\ fnRet[1].match.heritageContext # Null =>
           \E k \in 1..Len(fnCall.file.features) :
             /\ ClaimIndexed(fnCall.file.features[k])
             /\ fnRet[1].match.heritageContext[1].heritageInventoryKey
                  = <<fnCall.file.features[k].properties.SL_HRTG_INV_KEY>>

\* A file whose only feature is a Polygon with an empty coordinate list and
\* the address "5 Main Rd": it is indexed, and the row is matched to it by
\* fuzzy score.
C22_Witness ==
    /\ Called("loadCBDIndex")
    /\ Len(fnCall.file.features) = 1
    /\ fnCall.file.features[1].geometry = [type |-> "Polygon", coordinates |-> <<>>]
    /\ fnCall.file.features[1].properties.STR_ADR = <<"5", " ", "M", "a", "i", "n", " ", "R", "d">>
    /\ fnCall.file.features[1].properties.HRTG_INV_SITE_NAME = <<>>
    /\ Len(fnRet[1].index) = 1
    /\ fnRet[1].index[1].polygons = << <<>> >>
    /\ fnRet[1].match.matchMethod = "address-fuzzy"
    /\ fnRet[1].match.candidate = 1

\* The house number and the tokens of a string taken as it is, without
\* normalising it again.
HouseNumberAsIs(text) ==
    firstOrEmpty(SelectSeq(runsFrom(text, "word", 1, <<>>),
                           LAMBDA w : AllDigits(w) /\ Len(w) <= 5))
TokensAsIs(text) == runsFrom(text, "alnum", 1, <<>>)

\* C27: normalizeAddress(normalizeAddress(s)) = normalizeAddress(s), so
\* extractHouseNumber and tokens, which normalise again, give for a
\* normalised string the house number and tokens read from it directly, and
\* the score built from them is the same.
C27_NormalizeIdempotent ==
    Called("normalizeAddress") =>
      /\ fnRet[1].twice = fnRet[1].once
      /\ extractHouseNumber(fnRet[1].once) = HouseNumberAsIs(fnRet[1].once)
      /\ tokens(fnRet[1].once) = TokensAsIs(fnRet[1].once)
      /\ scoreNormalized(fnRet[1].once, <<>>, fnRet[1].once, <<>>)
           = houseNumberSignal(HouseNumberAsIs(fnRet[1].once), HouseNumberAsIs(fnRet[1].once))
             + overlapSignal(Range(TokensAsIs(fnRet[1].once)), Range(TokensAsIs(fnRet[1].once)))
             + substringSignal(fnRet[1].once, fnRet[1].once)

\* "St&7" is normalised to "street and 7", which normalises to itself.
C27_Witness ==
    /\ Called("normalizeAddress")
    /\ fnCall.value = <<"S", "t", "&", "7">>
    /\ fnRet[1].once = <<"s", "t", "r", "e", "e", "t", " ", "a", "n", "d", " ", "7">>
    /\ fnRet[1].twice = <<"s", "t", "r", "e", "e", "t", " ", "a", "n", "d", " ", "7">>
    /\ extractHouseNumber(fnRet[1].once) = <<"7">>

====
